---- MODULE Spec2Model ----
(***************************************************************************)
(* A state-machine model of the imperative command processor               *)
(* (packages/cmd/src/CommandProcessor.ts): one processor, constructed for  *)
(* a command definition, serving invoke() calls one at a time.  Each await *)
(* of invoke (validate, prepare, handler.process) ends an action.          *)
(*                                                                         *)
(* Text is modelled by TLA+ strings, JavaScript `undefined`/`null` members *)
(* by the sentinel Undefined, and thrown values by records that carry the  *)
(* members the processor inspects.                                         *)
(***************************************************************************)
EXTENDS Integers, Sequences, FiniteSets, TLC

(***************************************************************************)
(* Bounds of the model.                                                    *)
(***************************************************************************)
\* Longest chain of handlers a definition carries.
MaxChain == 3
\* Longest positional list (arguments._) of an invocation.
MaxPositionals == 2
\* Longest secret given to the credential manager.
MaxSecretLen == 2
\* How many times Imperative.init is called.
MaxInits == 2
\* How many command completions the host sees.
MaxCompletions == 3
\* How many child commands the host's command tree has.
MaxChildren == 2
\* How many additional loggers a logging configuration asks for.
MaxAdditional == 2
\* Longest profile list of the loaded configuration.
MaxProfiles == 3

(***************************************************************************)
(* JavaScript values.                                                      *)
(***************************************************************************)
Undefined == "<undefined>"

\* String(x) as used by `a + b` and template literals.
Str(x) == IF x = Undefined THEN "undefined" ELSE x

\* `x || fallback` for a string-or-undefined x.
OrElse(x, fallback) == IF x = Undefined \/ x = "" THEN fallback ELSE x

\* U+000B, the vertical tab.
LINE_TABULATION == ""

\* The white space and line terminators String.prototype.trim strips: U+0020,
\* U+0009, U+000A, U+000D, U+000C, U+000B, and of those beyond U+007F the
\* ones a string of the module can hold: U+00A0, U+1680 and U+FEFF (the
\* others are U+2000..U+200A, U+2028, U+2029, U+202F, U+205F and U+3000).
WhiteSpace == {" ", "\t", "\n", "\r", "\f", LINE_TABULATION, " ", " ", "﻿"}

RECURSIVE TrimLeft(_)
TrimLeft(s) == IF s = "" THEN ""
               ELSE IF SubSeq(s, 1, 1) \in WhiteSpace THEN TrimLeft(Tail(s)) ELSE s

RECURSIVE TrimRight(_)
TrimRight(s) == IF s = "" THEN ""
                ELSE IF SubSeq(s, Len(s), Len(s)) \in WhiteSpace
                     THEN TrimRight(SubSeq(s, 1, Len(s) - 1)) ELSE s

\* String.prototype.trim
Trim(s) == TrimRight(TrimLeft(s))

\* Array.prototype.join
RECURSIVE Join(_, _)
Join(list, sep) == IF list = <<>> THEN ""
                   ELSE IF Len(list) = 1 THEN list[1]
                   ELSE list[1] \o sep \o Join(Tail(list), sep)

(***************************************************************************)
(* Values a callee can throw (or reject with).  `type` is the shape the    *)
(* processor discriminates on; `json` is JSON.stringify of the value.      *)
(***************************************************************************)
Thrown(type, message, additionalDetails, stack, json) ==
    [type |-> type, message |-> message, additionalDetails |-> additionalDetails,
     causeErrors |-> Undefined, stack |-> stack, json |-> json]

NothingThrown == Thrown("none", Undefined, Undefined, Undefined, Undefined)

ImperativeErr(msg, details) == Thrown("ImperativeError", msg, details, "<stack>", "{}")
\* An ImperativeError whose details carry causeErrors as well.
ImperativeErrCaused(msg, details, cause) ==
    [ImperativeErr(msg, details) EXCEPT !.causeErrors = cause]
PlainErr(msg, stack)        == Thrown("Error", msg, Undefined, stack, "{}")
TypeErr(msg)                == PlainErr(msg, "<stack>")
StringVal(s)                == Thrown("string", Undefined, Undefined, Undefined, s)
NullVal                     == Thrown("null", Undefined, Undefined, Undefined, "null")
UndefinedVal                == Thrown("undefined", Undefined, Undefined, Undefined, Undefined)
NumberVal(text)             == Thrown("number", Undefined, Undefined, Undefined, text)
ObjectVal(text)             == Thrown("object", Undefined, Undefined, Undefined, text)

IsNullish(v) == v.type \in {"null", "undefined"}

\* `v instanceof ImperativeError`, `v instanceof Error`, `typeof v === "string"`
InstanceOfImperativeError(v) == v.type = "ImperativeError"
InstanceOfError(v)           == v.type \in {"ImperativeError", "Error"}
IsString(v)                  == v.type = "string"

\* The values the model lets a validator, a prepare step or a handler throw.
ThrownValues ==
    { ImperativeErrCaused("E1", "D1", "C1"), ImperativeErr("E2", Undefined),
      PlainErr("boom", "at x"), PlainErr("", Undefined),
      StringVal("oops"), NullVal, UndefinedVal, NumberVal("42"), ObjectVal("{\"a\":1}") }

(***************************************************************************)
(* The response object (CommandResponse) and its error record              *)
(* (IImperativeError): the accumulator handed to handlers.                 *)
(***************************************************************************)
ERROR_EXIT_CODE == 1

ErrRec(msg, additionalDetails, causeErrors, stack) ==
    [set |-> TRUE, msg |-> msg, additionalDetails |-> additionalDetails,
     causeErrors |-> causeErrors, stack |-> stack]

NoError == [set |-> FALSE, msg |-> Undefined, additionalDetails |-> Undefined,
            causeErrors |-> Undefined, stack |-> Undefined]

\* new CommandResponse({silent, responseFormat}): nothing buffered, no error.
NewResponse(silent, responseFormat) ==
    [defined |-> TRUE, succeeded |-> TRUE, message |-> "", data |-> Undefined,
     stdout |-> "", stderr |-> "", error |-> NoError,
     silent |-> silent, responseFormat |-> responseFormat,
     progress |-> FALSE, liveOut |-> "", liveErr |-> "", jsonDocs |-> 0,
     calls |-> <<>>]

\* A variable of type CommandResponse that was never assigned.
NoResponse == [NewResponse(FALSE, "default") EXCEPT !.defined = FALSE]

\* History: `calls` lists the methods called on the response, in the order of
\* the calls.
Called(r, method) == [r EXCEPT !.calls = Append(@, method)]

Succeeded(r) == Called([r EXCEPT !.succeeded = TRUE], "succeeded")
Failed(r)    == Called([r EXCEPT !.succeeded = FALSE], "failed")

\* setError(details): records the error; an errored response is a failed one.
SetError(r, e) == Called([r EXCEPT !.error = e, !.succeeded = FALSE], "setError")

SetMessage(r, m) == Called([r EXCEPT !.message = m], "data.setMessage")
SetObj(r, d)     == Called([r EXCEPT !.data = d], "data.setObj")

\* What a console method does with its bytes: they are buffered, and written
\* to the process stream unless the response is silent.
WriteStdout(r, bytes) ==
    [r EXCEPT !.stdout = @ \o bytes,
              !.liveOut = IF r.silent THEN @ ELSE @ \o bytes]
WriteStderr(r, bytes) ==
    [r EXCEPT !.stderr = @ \o bytes,
              !.liveErr = IF r.silent THEN @ ELSE @ \o bytes]

\* console.log / console.error of a Buffer: the bytes as they are.
LogBuffer(r, bytes)   == Called(WriteStdout(r, bytes), "console.log")
ErrorBuffer(r, bytes) == Called(WriteStderr(r, bytes), "console.error")

\* console.log / console.error of text: the text and a newline.
ConsoleLog(r, text)   == LogBuffer(r, Str(text) \o "\n")
ConsoleError(r, text) == ErrorBuffer(r, Str(text) \o "\n")

\* console.errorHeader(text): the header line "<text>:".
ErrorHeader(r, text) == Called(WriteStderr(r, text \o ":\n"), "console.errorHeader")

\* bufferStdout / bufferStderr: seed the buffers without writing to a stream.
BufferStdout(r, bytes) == Called([r EXCEPT !.stdout = @ \o bytes], "bufferStdout")
BufferStderr(r, bytes) == Called([r EXCEPT !.stderr = @ \o bytes], "bufferStderr")

StartProgressBar(r) == Called([r EXCEPT !.progress = TRUE], "progress.startBar")
EndProgressBar(r)   == Called([r EXCEPT !.progress = FALSE], "endProgressBar")

\* buildJsonResponse(): the snapshot {success, exitCode, message, data, stdout,
\* stderr, error}; the exit code is 0 on success and the error constant otherwise.
BuildJsonResponse(r) ==
    [success |-> r.succeeded,
     exitCode |-> IF r.succeeded THEN 0 ELSE ERROR_EXIT_CODE,
     message |-> r.message, data |-> r.data,
     stdout |-> r.stdout, stderr |-> r.stderr, error |-> r.error]

\* writeJsonResponse(): one JSON document on the process's stdout.
WriteJsonResponse(r) == Called([r EXCEPT !.jsonDocs = @ + 1], "writeJsonResponse")

(***************************************************************************)
(* Command definitions, handler modules and invoke parameters.             *)
(***************************************************************************)
ERROR_TAG == "Command Processor Error:"

\* unexpectedCommandError.message and couldNotInstatiateCommandHandler.message
UnexpectedCommandError == "Unexpected Command Error"
CouldNotInstantiate(commandHandler, definitionName) ==
    "Could not instantiate the handler " \o commandHandler
        \o " for command " \o definitionName

\* What require(path) and `new module.default()` give for each handler path:
\* a handler, a failure to load, or an object without a process method.
\* The module of UseDependentProfile, the handler of the repository.
UseDependentProfilePath == "UseDependentProfile.handler"
HandlerPaths == {"h_ok", "./h_missing", "h_noproc", UseDependentProfilePath}
RequireFails(path) == path \notin {"h_ok", "h_noproc", UseDependentProfilePath}
HasProcess(path)   == path \in {"h_ok", UseDependentProfilePath}

\* The segments of a path between its "/" separators.
RECURSIVE SplitPath(_, _)
SplitPath(path, segment) ==
    IF path = "" THEN <<segment>>
    ELSE IF SubSeq(path, 1, 1) = "/" THEN <<segment>> \o SplitPath(Tail(path), "")
    ELSE SplitPath(Tail(path), segment \o SubSeq(path, 1, 1))

\* normalizeString of path.posix: "" and "." segments dropped, ".." taking the
\* segment before it away, or kept when a relative path has none to take.
RECURSIVE NormalizeSegments(_, _, _)
NormalizeSegments(segments, kept, allowAboveRoot) ==
    IF segments = <<>> THEN kept
    ELSE LET segment == Head(segments) IN
         NormalizeSegments(Tail(segments),
             IF segment = "" \/ segment = "." THEN kept
             ELSE IF segment = ".."
             THEN IF kept # <<>> /\ kept[Len(kept)] # ".."
                  THEN SubSeq(kept, 1, Len(kept) - 1)
                  ELSE IF allowAboveRoot THEN Append(kept, "..") ELSE kept
             ELSE Append(kept, segment),
             allowAboveRoot)

\* path.normalize (posix)
NormalizePath(path) ==
    IF path = "" THEN "."
    ELSE LET isAbsolute == SubSeq(path, 1, 1) = "/"
             trailingSeparator == SubSeq(path, Len(path), Len(path)) = "/"
             normal == Join(NormalizeSegments(SplitPath(path, ""), <<>>, ~isAbsolute), "/")
         IN  IF normal = ""
             THEN IF isAbsolute THEN "/" ELSE IF trailingSeparator THEN "./" ELSE "."
             ELSE (IF isAbsolute THEN "/" ELSE "") \o normal
                      \o (IF trailingSeparator THEN "/" ELSE "")

ChainedSteps == { [handler |-> "h_ok", silent |-> Undefined],
                  [handler |-> "h_ok", silent |-> "true"],
                  [handler |-> "./h_missing", silent |-> Undefined] }

\* All sequences over S of length at most n.
SeqsUpTo(S, n) == UNION { [1..k -> S] : k \in 0..n }

\* ICommandDefinition: `handler` is a path, a blank or Undefined; hasChain says
\* whether `chainedHandlers` is present at all.  A group carries no handler; a
\* definition that has a handler never reaches its chain, so the model gives
\* such a definition one chained step at most.
Definitions ==
    { d \in [name : {"greet"}, type : {"command", "group"},
             handler : {Undefined, " \t" \o LINE_TABULATION} \cup HandlerPaths,
             hasChain : BOOLEAN,
             chainedHandlers : SeqsUpTo(ChainedSteps, MaxChain),
             profile : {[required |-> <<"profile-with-dependency">>]}] :
        /\ ~d.hasChain => d.chainedHandlers = <<>>
        /\ d.type = "group" => /\ d.handler \in {Undefined, " \t" \o LINE_TABULATION}
                               /\ ~d.hasChain
        /\ d.handler # Undefined => Len(d.chainedHandlers) <= 1 }

\* ImperativeExpect.keysToBeDefinedAndNonBlank on one string-valued key.
DefinedAndNonBlank(x) == x # Undefined /\ Trim(x) # ""

\* The constructor's checks on the definition and the root command name; the
\* message of the ImperativeError it throws, or Undefined when it accepts.
ConstructorError(def, rootCommandName) ==
    IF def.type = "command" /\ ~def.hasChain /\ ~DefinedAndNonBlank(def.handler)
    THEN ERROR_TAG \o " The definition supplied is of type \"command\", but no handler was specified."
    ELSE IF ~DefinedAndNonBlank(rootCommandName)
    THEN ERROR_TAG \o " No root command supplied."
    ELSE Undefined

RootCommandNames == {"cli"}

\* The positional lists (arguments._) an invocation supplies.
Words == <<"greet", "now", "again", "more">>
PositionalLists == { SubSeq(Words, 1, k) : k \in 0..MaxPositionals }

\* yargs Arguments: `isNull` for a null object, `hasArray` for `_` being an
\* array, `json` for the response-format-json option.
ArgumentValues ==
    [isNull : {FALSE}, hasArray : {TRUE}, positionals : PositionalLists, json : BOOLEAN]
    \cup [isNull : BOOLEAN, hasArray : {FALSE}, positionals : {<<>>}, json : {FALSE}]

\* IInvokeCommandParms.
InvokeParams ==
    { p \in [isNull : {FALSE}, arguments : ArgumentValues,
             responseFormat : {Undefined, "default", "json", "xml"},
             silent : {Undefined, "true"}] :
        (p.silent # Undefined \/ p.arguments.json) => p.arguments.positionals = <<>> }
    \cup [isNull : {TRUE}, arguments : {CHOOSE a \in ArgumentValues : a.isNull},
          responseFormat : {Undefined}, silent : {Undefined}]

(***************************************************************************)
(* The steps of CommandProcessor.invoke as functions of the response       *)
(* object.  A step that can throw returns the response as it left it and   *)
(* the value thrown (NothingThrown when it completed).                     *)
(***************************************************************************)
ResponseOptions == <<"default", "json">>

\* params.responseFormat after the default is applied.
EffectiveFormat(params) ==
    IF params.responseFormat = Undefined THEN "default" ELSE params.responseFormat

\* The parameter checks that open invoke: the ImperativeError thrown by the
\* first expectation that fails, or NothingThrown.
InvokePreCheck(def, params) ==
    IF params.isNull
    THEN ImperativeErr(ERROR_TAG \o " invoke(): No parameters supplied.", Undefined)
    ELSE IF params.arguments.isNull
    THEN ImperativeErr(ERROR_TAG \o " invoke(): No command arguments supplied.", Undefined)
    ELSE IF \A i \in 1..Len(ResponseOptions) : ResponseOptions[i] # EffectiveFormat(params)
    THEN ImperativeErr(ERROR_TAG \o " invoke(): Response format must be one of the following: "
                           \o Join(ResponseOptions, ","), Undefined)
    ELSE IF ~params.arguments.hasArray
    THEN ImperativeErr(ERROR_TAG \o " invoke(): The command arguments object supplied "
                           \o "does not contain an array of args.", Undefined)
    ELSE IF ~def.hasChain /\ def.handler = Undefined
    THEN ImperativeErr(ERROR_TAG \o " invoke(): Cannot invoke the command \"" \o def.name
                           \o "\". It has no handler and no chained handlers.", Undefined)
    ELSE IF ~def.hasChain /\ Trim(def.handler) = ""
    THEN ImperativeErr(ERROR_TAG \o " invoke(): Cannot invoke the handler for command \""
                           \o def.name \o "\". The handler is blank.", Undefined)
    ELSE NothingThrown

\* constructResponseObject(params)
ConstructResponseObject(silent, responseFormat) ==
    NewResponse(IF silent = Undefined THEN FALSE ELSE silent = "true", responseFormat)

\* finishResponse(response): the snapshot, written as a JSON document when the
\* response is not silent and its format is json.
FinishResponse(r) ==
    IF ~r.defined
    THEN [response |-> r, json |-> BuildJsonResponse(r),
          thrown |-> TypeErr("Cannot read property 'buildJsonResponse' of undefined")]
    ELSE IF r.silent \/ r.responseFormat = "default"
    THEN [response |-> r, json |-> BuildJsonResponse(r), thrown |-> NothingThrown]
    ELSE IF r.responseFormat = "json"
    THEN [response |-> WriteJsonResponse(r), json |-> BuildJsonResponse(r),
          thrown |-> NothingThrown]
    ELSE [response |-> r, json |-> BuildJsonResponse(r),
          thrown |-> ImperativeErr(ERROR_TAG \o " The response format specified (\""
                                       \o r.responseFormat \o "\") is not valid.", Undefined)]

\* ValidateCatch recording the thrown error as the cause chain instead of
\* copying its message into additionalDetails.
ValidateCatch_CauseChain(r, e) ==
    IF IsNullish(e)
    THEN [response |-> r, thrown |-> TypeErr("Cannot read property 'message' of " \o e.type)]
    ELSE LET errMsg == "Unexpected syntax validation error"
             r1 == SetMessage(r, errMsg \o ": " \o Str(e.message))
             r2 == ConsoleError(ErrorHeader(r1, errMsg), e.message)
             r3 == SetError(r2, ErrRec(errMsg, Undefined, e.message, Undefined))
         IN  [response |-> Failed(r3), thrown |-> NothingThrown]

\* The catch block around validate (the validator threw e).
ValidateCatch(r, e) ==
    IF IsNullish(e)
    THEN [response |-> r, thrown |-> TypeErr("Cannot read property 'message' of " \o e.type)]
    ELSE LET errMsg == "Unexpected syntax validation error"
             errReason == errMsg \o ": " \o Str(e.message)
             r1 == SetMessage(r, errReason)
             r2 == ErrorHeader(r1, errMsg)
             r3 == ConsoleError(r2, e.message)
             r4 == SetError(r3, ErrRec(errMsg, e.message, Undefined, Undefined))
         IN  [response |-> Failed(r4), thrown |-> NothingThrown]

\* SyntaxInvalid with the hint always built from the definition name.
SyntaxInvalid_DefinitionNameOnly(r, def, rootCommand, positionals) ==
    ConsoleError(Failed(SetMessage(r, "Command syntax invalid")),
                 "\nUse \"" \o def.name
                     \o " --help\" to view command description, usage, and options.")

\* SyntaxInvalid without the call of response.failed().
SyntaxInvalid_NotFailed(r, def, rootCommand, positionals) ==
    LET r1 == SetMessage(r, "Command syntax invalid")
        finalHelp ==
            IF Len(positionals) > 0
            THEN "\nUse \"" \o rootCommand \o " " \o Join(positionals, " ")
                     \o " --help\" to view command description, usage, and options."
            ELSE "\nUse \"" \o def.name
                     \o " --help\" to view command description, usage, and options."
    IN  ConsoleError(r1, finalHelp)

\* The branch taken when the validator answers valid = false.
SyntaxInvalid(r, def, rootCommand, positionals) ==
    LET r1 == Failed(SetMessage(r, "Command syntax invalid"))
        finalHelp ==
            IF Len(positionals) > 0
            THEN "\nUse \"" \o rootCommand \o " " \o Join(positionals, " ")
                     \o " --help\" to view command description, usage, and options."
            ELSE "\nUse \"" \o def.name
                     \o " --help\" to view command description, usage, and options."
    IN  ConsoleError(r1, finalHelp)

\* The catch block around prepare (stdin read or profile load threw e).
PrepareCatch(r, e) ==
    LET r0 == Failed(r) IN
    IF IsNullish(e)
    THEN [response |-> r0, thrown |-> TypeErr("Cannot read property 'message' of " \o e.type)]
    ELSE LET err == OrElse(e.message, "Internal Error: No cause message present.")
             r1 == SetMessage(r0, err)
             r2 == ErrorHeader(r1, "Command Preparation Failed")
             r3 == ConsoleError(r2, err)
         IN  IF ~InstanceOfImperativeError(e)
             THEN [response |-> r3,
                   thrown |-> TypeErr("Cannot read property 'additionalDetails' of undefined")]
             ELSE IF e.additionalDetails # Undefined
             THEN [response |-> SetError(ConsoleError(ErrorHeader(r3, "Error Details"),
                                                      e.additionalDetails),
                                         ErrRec(err, e.additionalDetails, Undefined, Undefined)),
                   thrown |-> NothingThrown]
             ELSE [response |-> SetError(r3, ErrRec(err, Undefined, Undefined, Undefined)),
                   thrown |-> NothingThrown]

\* attemptHandlerLoad(response, handlerPath): whether a handler was obtained,
\* and the response, marked failed when it was not.
AttemptHandlerLoad(r, handlerPath, def) ==
    IF ~RequireFails(handlerPath)
    THEN [loaded |-> TRUE, response |-> r]
    ELSE LET handlerErrMessage == "Cannot find module '" \o handlerPath \o "'"
             errorMessage == CouldNotInstantiate(NormalizePath(handlerPath), def.name)
             r1 == Failed(r)
             r2 == ErrorHeader(r1, "Handler Instantiation Failed")
             r3 == ConsoleError(r2, errorMessage)
             r4 == SetMessage(r3, errorMessage)
             r5 == ErrorHeader(r4, "Error Details")
             r6 == ConsoleError(r5, handlerErrMessage)
         IN  [loaded |-> FALSE,
              response |-> SetError(r6, ErrRec(errorMessage, handlerErrMessage,
                                               Undefined, Undefined))]

\* HandleImperativeError with an error record made of the message alone.
HandleImperativeError_MessageOnly(e, r) ==
    LET r1 == SetError(r, ErrRec(e.message, Undefined, Undefined, Undefined))
        r2 == ErrorBuffer(ErrorHeader(r1, "Command Error"), e.message \o "\n")
    IN  SetMessage(r2, e.message)

\* handleHandlerError, the branch for a thrown ImperativeError: the error record
\* is the thrown error's details.
HandleImperativeError(e, r) ==
    LET r1 == SetError(r, ErrRec(e.message, e.additionalDetails, e.causeErrors, Undefined))
        r2 == ErrorHeader(r1, "Command Error")
        r3 == ErrorBuffer(r2, e.message \o "\n")
        r4 == IF e.additionalDetails # Undefined
              THEN ConsoleError(ErrorHeader(r3, "Error Details"), e.additionalDetails)
              ELSE r3
    IN  SetMessage(r4, e.message)

\* HandleUnhandledError with the header text put in the error record and the
\* stack put in additionalDetails.
HandleUnhandledError_StackInDetails(e, r, handlerPath) ==
    LET r1 == SetError(r, ErrRec(UnexpectedCommandError \o ": " \o e.message, e.stack,
                                 Undefined, Undefined))
    IN  SetMessage(r1, UnexpectedCommandError \o ": " \o e.message)

\* handleHandlerError, the branch for any other Error.
HandleUnhandledError(e, r, handlerPath) ==
    LET r1 == SetError(r, ErrRec(e.message, Undefined, Undefined, e.stack))
        r2 == SetMessage(r1, UnexpectedCommandError \o ": " \o e.message)
        r3 == ErrorHeader(r2, UnexpectedCommandError)
        r4 == ConsoleError(r3, "Please review the message and stack below.\n"
                                \o "Contact the creator of handler:\n"
                                \o "\"" \o handlerPath \o "\"")
        r5 == ErrorHeader(r4, "Message")
        r6 == ConsoleError(r5, IF e.message # "" THEN e.message
                               ELSE "No message present in the error.")
        r7 == ErrorHeader(r6, "Stack")
    IN  ConsoleError(r7, IF e.stack # Undefined /\ e.stack # "" THEN e.stack
                         ELSE "No error stack present in the error.")

\* HandleStringReject with the response message left as the handler set it.
HandleStringReject_NoMessage(e, r) ==
    LET r1 == ConsoleError(ErrorHeader(r, "Command Error"), e.json)
    IN  SetError(r1, ErrRec(e.json, Undefined, Undefined, Undefined))

\* handleHandlerError, the branch for a rejection with a string.
HandleStringReject(e, r) ==
    LET r1 == ErrorHeader(r, "Command Error")
        r2 == ConsoleError(r1, e.json)
        r3 == SetMessage(r2, e.json)
    IN  SetError(r3, ErrRec(e.json, Undefined, Undefined, Undefined))

\* handleHandlerError, the branch for a rejection with null or undefined.
HandleSilentReject(r) ==
    SetError(SetMessage(r, "Command failed"),
             ErrRec("Command Failed", Undefined, Undefined, Undefined))

\* handleHandlerError, the branch for anything else.
HandleUnexpectedMeans(e, r, handlerPath) ==
    LET r1 == ErrorHeader(r, UnexpectedCommandError)
        r2 == ConsoleError(r1, "The command indicated failure through an unexpected means.")
        r3 == ConsoleError(r2, "Contact the creator of handler:")
        r4 == ConsoleError(r3, "\"" \o handlerPath \o "\"")
    IN  SetObj(r4, e.json)

\* HandlerErrorBranch without the branch for null and undefined: they are
\* handled as anything else.
HandlerErrorBranch_NoNullBranch(e, r, handlerPath) ==
    IF InstanceOfImperativeError(e) THEN HandleImperativeError(e, r)
    ELSE IF InstanceOfError(e) THEN HandleUnhandledError(e, r, handlerPath)
    ELSE IF IsString(e) THEN HandleStringReject(e, r)
    ELSE HandleUnexpectedMeans(e, r, handlerPath)

\* handleHandlerError: the branch chosen by the shape of the thrown value.
HandlerErrorBranch(e, r, handlerPath) ==
    IF InstanceOfImperativeError(e) THEN HandleImperativeError(e, r)
    ELSE IF InstanceOfError(e) THEN HandleUnhandledError(e, r, handlerPath)
    ELSE IF IsString(e) THEN HandleStringReject(e, r)
    ELSE IF IsNullish(e) THEN HandleSilentReject(r)
    ELSE HandleUnexpectedMeans(e, r, handlerPath)

\* HandleHandlerError without the call of response.failed().
HandleHandlerError_NotFailed(e, r, handlerPath) ==
    HandlerErrorBranch(e, EndProgressBar(r), handlerPath)

\* handleHandlerError(handlerErr, response, handlerPath)
HandleHandlerError(e, r, handlerPath) ==
    HandlerErrorBranch(e, EndProgressBar(Failed(r)), handlerPath)

(***************************************************************************)
(* The bookkeeping of the chained loop.                                    *)
(***************************************************************************)
\* The per-step response left without the output of the earlier steps.
SeedResponse_NoSeed(fresh, stdOut, stdErr) == fresh

\* chainedResponse.bufferStdout(bufferedStdOut); .bufferStderr(bufferedStdErr)
SeedResponse(fresh, stdOut, stdErr) ==
    BufferStderr(BufferStdout(fresh, stdOut), stdErr)

\* The step's data put in front of the data of the earlier steps.
PushData_Front(list, data) == <<data>> \o list

\* chainedResponses.push(builtResponse.data)
PushData(list, data) == Append(list, data)

\* The loop going on to the next step whether or not this one threw.
StepStops_Never(thrown) == FALSE

\* Whether the loop is left after a step: its catch block returns.
StepStops(thrown) == thrown # NothingThrown

\* What the loop hands to a step that is about to be called: the index, the
\* arguments of ChainedHandlerService.getArguments and the seeded buffers.
StepRecord(index, loaded, chain, priorData, arguments, stdOut, stdErr) ==
    [index |-> index, loaded |-> loaded, chainedHandlers |-> chain,
     priorData |-> priorData, arguments |-> arguments,
     seededOut |-> stdOut, seededErr |-> stdErr,
     settled |-> FALSE, behaviour |-> [log |-> "", warn |-> "", callsFailed |-> FALSE,
                                        thrown |-> NothingThrown, atCall |-> FALSE],
     data |-> Undefined]

(***************************************************************************)
(* Profiles: what CommandProfileLoader.loadProfiles resolves for the       *)
(* definition's profile requirement, and the map handed to handlers.       *)
(***************************************************************************)
\* The profiles on disk: a main profile whose type depends on profile-a.
ProfileStore ==
    { [type |-> "profile-with-dependency", name |-> "main1",
       dependencies |-> <<"profile-a">>],
      [type |-> "profile-a", name |-> "dep1", dependencies |-> <<>>] }

DefaultProfile(type) == CHOOSE p \in ProfileStore : p.type = type

\* Load the profiles of the given types, each after its dependencies.
RECURSIVE LoadAll(_)
LoadAll(types) ==
    IF types = <<>> THEN <<>>
    ELSE LET p == DefaultProfile(Head(types))
         IN  LoadAll(p.dependencies) \o <<[type |-> p.type, name |-> p.name]>>
                 \o LoadAll(Tail(types))

\* prepare() loading the profiles before it reads stdin.
PrepareCalls_ProfilesFirst == <<"loadProfiles", "readStdinIfRequested">>

\* What prepare() awaits, in order: SharedOptions.readStdinIfRequested, then
\* CommandProfileLoader.loadProfiles.
PrepareCalls == <<"readStdinIfRequested", "loadProfiles">>

\* prepare(): {profiles} for the command definition, and the calls it made.
PrepareProfiles(def) == [profiles |-> LoadAll(def.profile.required), calls |-> PrepareCalls]

NoPrepared == [profiles |-> <<>>, calls |-> <<>>]

\* prepare() was called: it has called readStdinIfRequested and awaits it.
PrepareCalled == [NoPrepared EXCEPT !.calls = <<PrepareCalls[1]>>]
NoProfile == [type |-> Undefined, name |-> Undefined]

\* profiles.get(type): the first loaded profile of the type.
ProfileMapGet(profiles, type) ==
    IF \E i \in 1..Len(profiles) : profiles[i].type = type
    THEN profiles[CHOOSE i \in 1..Len(profiles) :
                     /\ profiles[i].type = type
                     /\ \A j \in 1..(i - 1) : profiles[j].type # type]
    ELSE NoProfile

\* UseDependentProfile.process: the lines the handler logs from the profile map
\* it is given, one console.log call each, and what it throws when a profile
\* is missing.
UseDependentProfile(profiles) ==
    LET dependencyProfile == ProfileMapGet(profiles, "profile-a")
        mainProfile == ProfileMapGet(profiles, "profile-with-dependency")
    IN  IF dependencyProfile = NoProfile
        THEN [lines |-> <<>>, thrown |-> TypeErr("Cannot read property 'name' of undefined")]
        ELSE IF mainProfile = NoProfile
        THEN [lines |-> <<"Loaded profile dependency " \o dependencyProfile.name
                              \o " of type " \o dependencyProfile.type>>,
              thrown |-> TypeErr("Cannot read property 'name' of undefined")]
        ELSE [lines |-> <<"Loaded profile dependency " \o dependencyProfile.name
                              \o " of type " \o dependencyProfile.type,
                          "Loaded main profile " \o mainProfile.name
                              \o " of type " \o mainProfile.type>>,
              thrown |-> NothingThrown]

\* One console.log call per line, in order.
RECURSIVE ConsoleLogAll(_, _)
ConsoleLogAll(r, lines) ==
    IF lines = <<>> THEN r ELSE ConsoleLogAll(ConsoleLog(r, Head(lines)), Tail(lines))

(***************************************************************************)
(* What a handler's process() does with the response it is given before it *)
(* completes: console output and data, a progress bar left running, a call *)
(* of response.failed(); then it returns, or throws `thrown`.  `atCall`    *)
(* tells a handler without an await of its own, whose calls on the         *)
(* response are made before process returns its promise, and which does    *)
(* nothing but console.log.                                                *)
(***************************************************************************)
HandlerBehaviours ==
    { b \in [log : {"", "hello", "world"}, warn : {"", "careful"}, callsFailed : BOOLEAN,
             thrown : ThrownValues \cup {NothingThrown}, atCall : {FALSE}] :
        /\ b.callsFailed => b.thrown = NothingThrown /\ b.log = ""
        /\ (b.warn # "") <=> (b.log = "world")
        /\ b.thrown # NothingThrown => b.log \in {"", "hello"}
        /\ (b.thrown # NothingThrown /\ b.log = "") => b.thrown.type \in {"Error", "undefined"} }

\* The handler of the repository, UseDependentProfile: its two console.log
\* calls, made when process is called.
UseDependentProfileBehaviour(profiles) ==
    LET ran == UseDependentProfile(profiles) IN
    [log |-> ConsoleLogAll(NewResponse(FALSE, "default"), ran.lines).stdout, warn |-> "",
     callsFailed |-> FALSE, thrown |-> ran.thrown, atCall |-> TRUE]

\* What process does, for the handler at a path and the profiles it is given.
\* Calling process on a loaded value that has no process method throws a
\* TypeError before any handler code runs.
BehavioursOf(handlerPath, profiles) ==
    IF handlerPath = UseDependentProfilePath THEN {UseDependentProfileBehaviour(profiles)}
    ELSE IF HasProcess(handlerPath) THEN HandlerBehaviours
    ELSE { [log |-> "", warn |-> "", callsFailed |-> FALSE,
            thrown |-> TypeErr("handler.process is not a function"), atCall |-> FALSE] }

\* The response after the calls on it of a handler that makes them while
\* invoke waits for its process.
HandlerEffects(r, b) ==
    LET r1 == IF b.log # ""
              THEN SetObj(ConsoleLog(StartProgressBar(r), b.log),
                          "{\"said\":\"" \o b.log \o "\"}")
              ELSE r
        r2 == IF b.warn # "" THEN ConsoleError(r1, b.warn) ELSE r1
    IN  IF b.callsFailed THEN Failed(r2) ELSE r2

\* The response when handler.process(...) has returned its promise and invoke
\* is suspended at the await: the calls of a handler without an await of its
\* own are made by then.
EffectsAtCall(r, handlerPath, profiles) ==
    IF handlerPath = UseDependentProfilePath
    THEN ConsoleLogAll(r, UseDependentProfile(profiles).lines)
    ELSE r

\* The response when process settles: the calls made since it was called.
EffectsAtSettle(r, b) == IF b.atCall THEN r ELSE HandlerEffects(r, b)

(***************************************************************************)
(* The parameter object of handler.process: copies of the definitions and  *)
(* the prepared profiles.  `shared` tells whether the object handed out is *)
(* the processor's own (a reference) or a copy of it.                      *)
(***************************************************************************)
\* JSON.parse(JSON.stringify(def)): a new object with the same members; a
\* member that is undefined is left out and reads as undefined again.
JsonCopy(def) ==
    [name |-> def.name, type |-> def.type, handler |-> def.handler,
     hasChain |-> def.hasChain,
     chainedHandlers |-> [i \in 1..Len(def.chainedHandlers) |->
                             [handler |-> def.chainedHandlers[i].handler,
                              silent |-> def.chainedHandlers[i].silent]],
     profile |-> [required |-> def.profile.required]]

\* The accessor handing out the processor's own object.
DefinitionGetter_ByReference(def) == [shared |-> TRUE, value |-> def]

\* get definition() / get fullDefinition()
DefinitionGetter(def) == [shared |-> FALSE, value |-> JsonCopy(def)]

\* The handler parameters without the prepared profiles.
HandlerParams_NoProfiles(def, fullDef, prep) ==
    [given |-> TRUE, mutated |-> FALSE,
     definition |-> DefinitionGetter(def),
     fullDefinition |-> DefinitionGetter(fullDef),
     profiles |-> <<>>]

\* {response, profiles: prepared.profiles, arguments, definition, fullDefinition}
HandlerParams(def, fullDef, prep) ==
    [given |-> TRUE, mutated |-> FALSE,
     definition |-> DefinitionGetter(def),
     fullDefinition |-> DefinitionGetter(fullDef),
     profiles |-> prep.profiles]

(***************************************************************************)
(* help(response) and validate(commandArguments, responseObject) called    *)
(* directly.                                                               *)
(***************************************************************************)
HelpTexts == {"usage: greet", ""}

\* What the syntax validator can answer.
ValidatorAnswers == { [valid |-> TRUE, issues |-> <<>>],
                      [valid |-> FALSE, issues |-> <<"Missing">>] }
NoAnswer == [valid |-> FALSE, issues |-> <<"none">>]

\* help() writing the text with console.log of a string, newline added.
HelpCommand_AsLine(r, def, helpText) ==
    IF ~r.defined
    THEN [response |-> r, json |-> BuildJsonResponse(r), buildHelpCalls |-> 0,
          thrown |-> ImperativeErr(ERROR_TAG \o " help(): No command response object supplied.",
                                   Undefined)]
    ELSE LET fin == FinishResponse(ConsoleLog(SetObj(r, helpText), helpText))
         IN  [response |-> fin.response, json |-> fin.json, buildHelpCalls |-> 1,
              thrown |-> fin.thrown]

\* help(response)
HelpCommand(r, def, helpText) ==
    IF ~r.defined
    THEN [response |-> r, json |-> BuildJsonResponse(r), buildHelpCalls |-> 0,
          thrown |-> ImperativeErr(ERROR_TAG \o " help(): No command response object supplied.",
                                   Undefined)]
    ELSE LET r1 == SetObj(r, helpText)
             r2 == LogBuffer(r1, helpText)
             r3 == SetMessage(r2, "The help was constructed for command: " \o def.name \o ".")
             fin == FinishResponse(r3)
         IN  [response |-> fin.response, json |-> fin.json, buildHelpCalls |-> 1,
              thrown |-> fin.thrown]

\* validate() marking the response failed itself when the answer is invalid.
ValidateCommand_MarksFailed(args, r, answer, validatorThrown) ==
    IF args.isNull
    THEN [response |-> r, returned |-> NoAnswer,
          thrown |-> ImperativeErr(ERROR_TAG \o " validate(): No command arguments supplied.",
                                   Undefined)]
    ELSE [response |-> IF r.defined /\ ~answer.valid THEN Failed(r) ELSE r,
          returned |-> answer, thrown |-> validatorThrown]

\* validate(commandArguments, responseObject): the validator's answer, or
\* what it threw, after the two parameter checks.
ValidateCommand(args, r, answer, validatorThrown) ==
    IF args.isNull
    THEN [response |-> r, returned |-> NoAnswer,
          thrown |-> ImperativeErr(ERROR_TAG \o " validate(): No command arguments supplied.",
                                   Undefined)]
    ELSE IF ~r.defined
    THEN [response |-> r, returned |-> NoAnswer,
          thrown |-> ImperativeErr(ERROR_TAG \o " validate(): No response object supplied.",
                                   Undefined)]
    ELSE [response |-> r,
          returned |-> IF validatorThrown = NothingThrown THEN answer ELSE NoAnswer,
          thrown |-> validatorThrown]

(***************************************************************************)
(* AbstractCredentialManager: save and load wrap the secret in base64      *)
(* around the backend's saveCredentials / loadCredentials.                 *)
(***************************************************************************)
Base64Alphabet == "ABCDEFGHIJKLMNOPQRSTUVWXYZabcdefghijklmnopqrstuvwxyz0123456789+/"
Base64Char(i) == SubSeq(Base64Alphabet, i + 1, i + 1)
Base64Index(c) == CHOOSE i \in 0..(Len(Base64Alphabet) - 1) : Base64Char(i) = c

\* The UTF-16 code units secrets are made of: "p" (112), e-acute (233), and a
\* high and a low surrogate, alone or as the pair of U+10000.
HIGH_SURROGATE == 55296
LOW_SURROGATE == 56320
IsHighSurrogate(u) == u >= 55296 /\ u <= 56319
IsLowSurrogate(u) == u >= 56320 /\ u <= 57343
IsSurrogate(u) == IsHighSurrogate(u) \/ IsLowSurrogate(u)
REPLACEMENT_CHARACTER == 65533

\* The code point of a surrogate pair, and the code units of a code point.
CodePointOfPair(high, low) == 65536 + ((high - 55296) * 1024) + (low - 56320)
UnitsOfCodePoint(cp) ==
    IF cp < 65536 THEN <<cp>>
    ELSE <<55296 + ((cp - 65536) \div 1024), 56320 + ((cp - 65536) % 1024)>>

\* The UTF-8 bytes of one code point.
Utf8OfCodePoint(u) ==
    IF u < 128 THEN <<u>>
    ELSE IF u < 2048 THEN <<192 + (u \div 64), 128 + (u % 64)>>
    ELSE IF u < 65536
    THEN <<224 + (u \div 4096), 128 + ((u \div 64) % 64), 128 + (u % 64)>>
    ELSE <<240 + (u \div 262144), 128 + ((u \div 4096) % 64), 128 + ((u \div 64) % 64),
           128 + (u % 64)>>

\* Buffer.from(text): the UTF-8 bytes of the text; a surrogate pair is one
\* code point of four bytes, an unpaired surrogate is encoded as U+FFFD.
RECURSIVE Utf8Bytes(_)
Utf8Bytes(text) ==
    IF text = <<>> THEN <<>>
    ELSE IF IsHighSurrogate(text[1]) /\ Len(text) >= 2 /\ IsLowSurrogate(text[2])
    THEN Utf8OfCodePoint(CodePointOfPair(text[1], text[2]))
         \o Utf8Bytes(SubSeq(text, 3, Len(text)))
    ELSE Utf8OfCodePoint(IF IsSurrogate(text[1]) THEN REPLACEMENT_CHARACTER ELSE text[1])
         \o Utf8Bytes(Tail(text))

\* buffer.toString(): the text of UTF-8 bytes.  A lead byte wants one, two or
\* three continuation bytes (the first of them in the range that excludes
\* overlong forms, surrogates and code points past U+10FFFF); a byte that is
\* no lead byte, and a sequence cut short by a byte that does not continue it
\* or by the end, give one U+FFFD, and decoding goes on at the byte that cut
\* it short.
RECURSIVE Utf8Text(_)
Utf8Text(bytes) ==
    IF bytes = <<>> THEN <<>>
    ELSE LET lead == bytes[1]
             need == IF lead < 128 THEN 0
                     ELSE IF lead >= 194 /\ lead <= 223 THEN 1
                     ELSE IF lead >= 224 /\ lead <= 239 THEN 2
                     ELSE IF lead >= 240 /\ lead <= 244 THEN 3
                     ELSE -1
             lower == IF lead = 224 THEN 160 ELSE IF lead = 240 THEN 144 ELSE 128
             upper == IF lead = 237 THEN 159 ELSE IF lead = 244 THEN 143 ELSE 191
             Continues(i) ==
                 /\ i <= Len(bytes)
                 /\ bytes[i] >= (IF i = 2 THEN lower ELSE 128)
                 /\ bytes[i] <= (IF i = 2 THEN upper ELSE 191)
             good == IF need < 1 THEN 0
                     ELSE CHOOSE k \in 0..need :
                              /\ \A i \in 2..(k + 1) : Continues(i)
                              /\ k < need => ~Continues(k + 2)
             Rest(from) == Utf8Text(SubSeq(bytes, from, Len(bytes)))
         IN  IF need = 0 THEN <<lead>> \o Rest(2)
             ELSE IF need = -1 \/ good < need
             THEN <<REPLACEMENT_CHARACTER>> \o Rest(good + 2)
             ELSE IF need = 1
             THEN <<((lead % 32) * 64) + (bytes[2] % 64)>> \o Rest(3)
             ELSE IF need = 2
             THEN <<((lead % 16) * 4096) + ((bytes[2] % 64) * 64) + (bytes[3] % 64)>>
                  \o Rest(4)
             ELSE UnitsOfCodePoint(((lead % 8) * 262144) + ((bytes[2] % 64) * 4096)
                                       + ((bytes[3] % 64) * 64) + (bytes[4] % 64))
                  \o Rest(5)

\* buffer.toString("base64")
RECURSIVE Base64Encode(_)
Base64Encode(bytes) ==
    IF Len(bytes) = 0 THEN ""
    ELSE IF Len(bytes) = 1
    THEN Base64Char(bytes[1] \div 4) \o Base64Char((bytes[1] % 4) * 16) \o "=="
    ELSE IF Len(bytes) = 2
    THEN Base64Char(bytes[1] \div 4)
         \o Base64Char((bytes[1] % 4) * 16 + bytes[2] \div 16)
         \o Base64Char((bytes[2] % 16) * 4) \o "="
    ELSE Base64Char(bytes[1] \div 4)
         \o Base64Char((bytes[1] % 4) * 16 + bytes[2] \div 16)
         \o Base64Char((bytes[2] % 16) * 4 + bytes[3] \div 64)
         \o Base64Char(bytes[3] % 64)
         \o Base64Encode(SubSeq(bytes, 4, Len(bytes)))

\* Buffer.from(text, "base64")
RECURSIVE Base64Decode(_)
Base64Decode(text) ==
    IF Len(text) < 2 \/ SubSeq(text, 1, 1) = "=" \/ SubSeq(text, 2, 2) = "=" THEN <<>>
    ELSE LET a == Base64Index(SubSeq(text, 1, 1))
             b == Base64Index(SubSeq(text, 2, 2))
             first == <<a * 4 + b \div 16>>
         IN  IF Len(text) < 3 \/ SubSeq(text, 3, 3) = "=" THEN first
             ELSE LET c == Base64Index(SubSeq(text, 3, 3))
                      second == <<(b % 16) * 16 + c \div 4>>
                  IN  IF Len(text) < 4 \/ SubSeq(text, 4, 4) = "=" THEN first \o second
                      ELSE first \o second
                           \o <<(c % 4) * 64 + Base64Index(SubSeq(text, 4, 4))>>
                           \o Base64Decode(SubSeq(text, 5, Len(text)))

Accounts == {"acct_a", "acct_b"}

\* The secrets: the texts of 1..MaxSecretLen code units that alternate between
\* "p" and e-acute, and the texts made of surrogates, paired and unpaired.
Secrets ==
    { [i \in 1..n |-> IF i % 2 = 1 THEN 112 ELSE 233] : n \in 1..MaxSecretLen }
    \cup { <<HIGH_SURROGATE>>, <<HIGH_SURROGATE, LOW_SURROGATE>>,
           <<LOW_SURROGATE, HIGH_SURROGATE>> }

\* The secureValue arguments of save: a secret, "", or null/undefined.
NoSecret == [isNull |-> TRUE, text |-> <<>>]
SecureValues == { [isNull |-> FALSE, text |-> t] : t \in Secrets \cup {<<>>} } \cup {NoSecret}

\* Text without an unpaired surrogate (String.prototype.isWellFormed).
WellFormed(text) ==
    \A i \in 1..Len(text) :
        /\ IsHighSurrogate(text[i]) => i < Len(text) /\ IsLowSurrogate(text[i + 1])
        /\ IsLowSurrogate(text[i]) => i > 1 /\ IsHighSurrogate(text[i - 1])

\* save() without the check of the secure value.
CredentialSave_NoCheck(account, secureValue) ==
    [calls |-> <<[account |-> account,
                  credentials |-> Base64Encode(Utf8Bytes(secureValue.text))]>>,
     thrown |-> NothingThrown]

\* save(account, secureValue): the saveCredentials calls it makes and what it
\* throws.
CredentialSave(account, secureValue) ==
    IF ~secureValue.isNull /\ secureValue.text # <<>>
    THEN [calls |-> <<[account |-> account,
                       credentials |-> Base64Encode(Utf8Bytes(secureValue.text))]>>,
          thrown |-> NothingThrown]
    ELSE [calls |-> <<>>, thrown |-> ImperativeErr("Missing Secure Field", Undefined)]

\* The character codes of a base64 string.
RECURSIVE Base64CharCodes(_)
Base64CharCodes(text) ==
    IF text = "" THEN <<>>
    ELSE LET c == SubSeq(text, 1, 1)
             i == IF c = "=" THEN 0 ELSE Base64Index(c)
         IN  <<IF c = "=" THEN 61
               ELSE IF i < 26 THEN 65 + i
               ELSE IF i < 52 THEN 97 + (i - 26)
               ELSE IF i < 62 THEN 48 + (i - 52)
               ELSE IF i = 62 THEN 43 ELSE 47>>
             \o Base64CharCodes(Tail(text))

\* load() without the base64 decoding: Buffer.from(encodedString).toString(),
\* the stored string as it is.
CredentialLoad_Raw(encodedString) ==
    [value |-> IF encodedString = Undefined THEN <<>>
               ELSE Utf8Text(Base64CharCodes(encodedString)),
     thrown |-> NothingThrown]

\* load(account), given what loadCredentials resolved with.
CredentialLoad(encodedString) ==
    IF encodedString = Undefined
    THEN [value |-> <<>>,
          thrown |-> TypeErr("The first argument must be one of type string, Buffer, "
                                 \o "ArrayBuffer, Array, or Array-like Object.")]
    ELSE [value |-> Utf8Text(Base64Decode(encodedString)), thrown |-> NothingThrown]

\* The backend: loadCredentials answers what saveCredentials was last given.
BackendSave(store, call) == [store EXCEPT ![call.account] = call.credentials]
BackendLoad(store, account) == store[account]
BackendDelete(store, account) == [store EXCEPT ![account] = Undefined]

\* What the store holds for the accounts other than the one given.
OtherAccounts(store, account) == [store EXCEPT ![account] = Undefined]

\* The last call that settled; for a load, `answered` is the secret that was
\* last saved for the account when loadCredentials read the backend.
NoCredOp == [op |-> "none", account |-> Undefined, secureValue |-> NoSecret,
             calls |-> <<>>, value |-> <<>>, answered |-> NoSecret,
             thrown |-> NothingThrown]

\* A save suspended at `await this.saveCredentials(account, encodedString)`:
\* its arguments and the saveCredentials call it made.
NoCredSave == [pending |-> FALSE, account |-> Undefined, secureValue |-> NoSecret,
               calls |-> <<>>]

\* A delete suspended at `await this.deleteCredentials(account)`.
NoCredDelete == [pending |-> FALSE, account |-> Undefined]

\* A load suspended at `await this.loadCredentials(account)`: what the backend
\* read for it, and the secret that string was saved from.
NoCredLoad == [pending |-> FALSE, account |-> Undefined, encodedString |-> Undefined,
               answered |-> NoSecret]

(***************************************************************************)
(* Imperative: init(), the api accessor and the completion callback that   *)
(* defineCommands registers.                                               *)
(***************************************************************************)
\* The places init can fail at, in the order it reaches them; the API object
\* is built after "plugins" and before "helpGenerator".
InitSyncFailures == {"loadConfig", "validateConfig", "logging"}
InitFailuresBeforeApi == {"overrides", "rootCommandName", "plugins", "api"}
InitFailuresAfterApi == {"helpGenerator", "commandTree", "pluginCommands", "preparedTree",
                         "profiles", "defineCommands"}

\* The steps of init in the order of its body.
InitSteps == <<"loadConfig", "validateConfig", "logging", "overrides", "rootCommandName",
               "plugins", "api", "helpGenerator", "commandTree", "pluginCommands",
               "preparedTree", "profiles", "defineCommands">>

\* The steps under `if (config.allowPlugins)`.
PluginSteps == {"plugins", "pluginCommands"}

\* init taking the plugin steps whatever the configuration says.
InitPlan_AlwaysPlugins(allowPlugins) == InitSteps

\* The steps init goes through for a configuration.
InitPlan(allowPlugins) ==
    LET Taken(step) == allowPlugins \/ step \notin PluginSteps
    IN  SelectSeq(InitSteps, Taken)

\* The plan up to the step given, that step included.
StepsThrough(plan, step) ==
    SubSeq(plan, 1, CHOOSE i \in 1..Len(plan) : plan[i] = step)

\* defineCommands: definer.define for each child in turn, then
\* mFullCommandTree is assigned; `failedChild` is the child whose define threw
\* (0 for none).
DefineCommands(children, failedChild) ==
    [k \in 1..(IF failedChild = 0 THEN children ELSE failedChild) |-> "defineChild"]
        \o (IF failedChild = 0 THEN <<"fullCommandTree">> ELSE <<>>)

\* What init's steps throw.
InitThrows == {ImperativeErr("E2", Undefined), PlainErr("boom", "at x")}

\* The catch clause of init rejecting with something other than an
\* ImperativeError.
InitRejection_AsThrown(error) ==
    [error |-> error, created |-> FALSE, cause |-> NothingThrown]

\* The catch clause of init: the value the promise is rejected with.
InitRejection(error) ==
    IF error.type = "ImperativeError"
    THEN [error |-> error, created |-> FALSE, cause |-> NothingThrown]
    ELSE [error |-> ImperativeErr("UNEXPECTED ERROR ENCOUNTERED", Undefined),
          created |-> TRUE, cause |-> error]

NoRejection == [error |-> NothingThrown, created |-> FALSE, cause |-> NothingThrown]

NoInitRun == [allowPlugins |-> FALSE, children |-> 0, trace |-> <<>>, settles |-> 0,
              outcome |-> "none", thrown |-> NothingThrown, rejection |-> NoRejection]

ApiMissing ==
    "Imperative API object does not exist.  The Imperative.init() promise "
        \o "must be fullfilled before the API object can be accessed.  For issuing messages "
        \o "without the API object, use Imperative.console."

\* constructApiObject(): a new API object, named by the init call building it.
ConstructApiObject(call) == [set |-> TRUE, builtBy |-> call]
\* Imperative.mApi before any assignment.
NoApi == [set |-> FALSE, builtBy |-> 0]

\* get api()
ApiGetter(api) ==
    IF ~api.set
    THEN [value |-> NoApi, thrown |-> ImperativeErr(ApiMissing, Undefined)]
    ELSE [value |-> api, thrown |-> NothingThrown]

NoExitCode == [set |-> FALSE, code |-> 0]

\* The callback setting the exit code whatever the response says.
ExitCodeAfter_Always(current, success) == [set |-> TRUE, code |-> ERROR_EXIT_CODE]

\* The callback given to definer.define: process.exitCode after a command
\* completed with response.success = success.
ExitCodeAfter(current, success) ==
    IF ~success THEN [set |-> TRUE, code |-> ERROR_EXIT_CODE] ELSE current

NoApiAccess == [read |-> FALSE, phase |-> "none", inits |-> 0,
                value |-> NoApi, thrown |-> NothingThrown]

(***************************************************************************)
(* LoggingConfigurer: the log4js configuration built for an Imperative     *)
(* configuration, as the recorded snapshots show it.                       *)
(***************************************************************************)
LogHome == "/someHome"
LogPattern == "[%d{yyyy/MM/dd} %r] [%p] %m"
DefaultLevel == "DEBUG"

\* One appender of the configuration.
Appender(filename) ==
    [filename |-> filename, layout |-> [pattern |-> LogPattern, type |-> "pattern"],
     type |-> "fileSync"]

\* One category: its appender list and its level.
Category(appenders, level) == [appenders |-> appenders, level |-> level]

\* The log file of a logger: the one asked for, or <name>/logs/<name>.log,
\* under the home directory.
LogFileOf(name, logFile) ==
    LogHome \o "/" \o (IF logFile = Undefined THEN name \o "/logs/" \o name \o ".log"
                       ELSE logFile)

LevelOf(level) == IF level = Undefined THEN DefaultLevel ELSE level

\* The key of the imperative or the app logger taken from the configuration.
ApiNameOf_Requested(fixed, requested) == IF requested = Undefined THEN fixed ELSE requested

\* The key of the imperative or the app logger: fixed, whatever api name the
\* configuration asks for.
ApiNameOf(fixed, requested) == fixed

EmptyLog4js == [appenders |-> <<>>, categories |-> <<>>]

\* A logger entered under a key: an appender of that name and a category
\* whose only appender it is.
ConfigureLoggerByKey(config, key, level, filename) ==
    [appenders |-> (key :> Appender(filename)) @@ config.appenders,
     categories |-> (key :> Category(<<key>>, level)) @@ config.categories]

\* The loggers of a configuration in the order they are entered: default,
\* imperative, app, then the additional ones.
LoggersOf(config) ==
    <<[key |-> "default", level |-> DefaultLevel,
       filename |-> LogFileOf("imperative", Undefined)],
      [key |-> ApiNameOf("imperative", config.imperativeLogging.apiName),
       level |-> LevelOf(config.imperativeLogging.level),
       filename |-> LogFileOf("imperative", Undefined)],
      [key |-> ApiNameOf("app", config.appLogging.apiName),
       level |-> LevelOf(config.appLogging.level),
       filename |-> LogFileOf(config.name, config.appLogging.logFile)]>>
    \o [i \in 1..Len(config.additionalLogging) |->
           [key |-> config.additionalLogging[i].apiName,
            level |-> LevelOf(config.additionalLogging[i].level),
            filename |-> LogFileOf(config.additionalLogging[i].apiName,
                                   config.additionalLogging[i].logFile)]]

\* The configurations given to the configurer.
AdditionalLoggers ==
    { [apiName |-> "extraOne", level |-> Undefined, logFile |-> Undefined],
      [apiName |-> "extraTwo", level |-> "info", logFile |-> "to/the/moon.log"] }

\* What configureLogger throws for a configuration without a name.
NameRequired == "Expect Error: Required parameter 'name' must be defined"

\* configureLogger's check of its input: the message of what it throws, or
\* undefined for a configuration it takes.
LoggingRejection(config) == IF config.name = Undefined THEN NameRequired ELSE Undefined

LoggingInputs ==
    [name : {"sample", "notSample", Undefined},
     imperativeLogging : [apiName : {Undefined, "notImperative"}, level : {Undefined, "trace"}],
     appLogging : [apiName : {Undefined, "notApp"}, level : {Undefined, "fatal"},
                   logFile : {Undefined, "different/location/log.txt"}],
     additionalLogging : SeqsUpTo(AdditionalLoggers, MaxAdditional)]

NoLoggingInput ==
    [name |-> "sample",
     imperativeLogging |-> [apiName |-> Undefined, level |-> Undefined],
     appLogging |-> [apiName |-> Undefined, level |-> Undefined, logFile |-> Undefined],
     additionalLogging |-> <<>>]

\* The snapshot "Should not be able to change api name for imperative or app".
SnapshotApiNameKept ==
    [appenders |-> [k \in {"app", "default", "imperative"} |->
                       Appender(IF k = "app" THEN "/someHome/sample/logs/sample.log"
                                ELSE "/someHome/imperative/logs/imperative.log")],
     categories |-> [k \in {"app", "default", "imperative"} |-> Category(<<k>>, "DEBUG")]]

\* The snapshot "... custom app, imperative, and additional logging".
SnapshotAdditional ==
    [appenders |-> [k \in {"app", "default", "extraOne", "extraTwo", "imperative"} |->
                       Appender(IF k = "app" THEN "/someHome/different/location/log.txt"
                                ELSE IF k = "extraOne" THEN "/someHome/extraOne/logs/extraOne.log"
                                ELSE IF k = "extraTwo" THEN "/someHome/to/the/moon.log"
                                ELSE "/someHome/imperative/logs/imperative.log")],
     categories |-> [k \in {"app", "default", "extraOne", "extraTwo", "imperative"} |->
                       Category(<<k>>, IF k = "app" THEN "fatal"
                                       ELSE IF k = "extraTwo" THEN "info"
                                       ELSE IF k = "imperative" THEN "trace"
                                       ELSE "DEBUG")]]

NoLogging == [stage |-> "none", input |-> NoLoggingInput, entered |-> 0,
              log4jsConfig |-> EmptyLog4js, thrownMessage |-> Undefined]
(***************************************************************************)
(* new CommandProcessor(params).                                           *)
(***************************************************************************)
\* The root of the command tree the definition hangs in.
RootDefinition ==
    [name |-> "cli", type |-> "group", handler |-> Undefined, hasChain |-> FALSE,
     chainedHandlers |-> <<>>, profile |-> [required |-> <<>>]]

\* The constructor's choice of the full definition: the tree given, or the
\* definition itself when none is given.
FullDefinitionOf(definition, fullDefinition) ==
    IF fullDefinition.isNull THEN definition ELSE fullDefinition.tree

\* params.fullDefinition: the root of the tree, or null.
FullTree == [isNull |-> FALSE, tree |-> RootDefinition]
NoFullTree == [isNull |-> TRUE, tree |-> RootDefinition]

NoProcessor == [produced |-> FALSE, mDefinition |-> RootDefinition,
                mFullDefinition |-> RootDefinition, mCommandRootName |-> Undefined]

\* ICommandProcessorParms; `present` members stand for objects that are
\* either given or null.
ConstructorParams ==
    [isNull : {FALSE},
     definition : [isNull : {FALSE}, value : Definitions]
                      \cup {[isNull |-> TRUE, value |-> RootDefinition]},
     fullDefinition : {NoFullTree, FullTree},
     helpGenerator : [present : BOOLEAN],
     profileManagerFactory : [present : BOOLEAN],
     rootCommandName : {Undefined, "", " ", "cli"}]
    \cup [isNull : {TRUE},
          definition : {[isNull |-> TRUE, value |-> RootDefinition]},
          fullDefinition : {NoFullTree},
          helpGenerator : {[present |-> FALSE]},
          profileManagerFactory : {[present |-> FALSE]},
          rootCommandName : {Undefined}]

NoConstructorParams == CHOOSE p \in ConstructorParams : p.isNull

\* The constructor without the check of the help generator.
Constructor_NoGeneratorCheck(p) ==
    IF p.isNull
    THEN [thrown |-> ImperativeErr(ERROR_TAG \o " No parameters supplied to constructor.",
                                   Undefined),
          processor |-> NoProcessor]
    ELSE IF p.definition.isNull
    THEN [thrown |-> ImperativeErr(ERROR_TAG \o " No command definition supplied.", Undefined),
          processor |-> NoProcessor]
    ELSE IF ~p.profileManagerFactory.present
    THEN [thrown |-> ImperativeErr(ERROR_TAG \o " No profile manager factory supplied.",
                                   Undefined),
          processor |-> NoProcessor]
    ELSE IF ConstructorError(p.definition.value, p.rootCommandName) # Undefined
    THEN [thrown |-> ImperativeErr(ConstructorError(p.definition.value, p.rootCommandName),
                                   Undefined),
          processor |-> NoProcessor]
    ELSE [thrown |-> NothingThrown,
          processor |-> [produced |-> TRUE, mDefinition |-> p.definition.value,
                         mFullDefinition |-> FullDefinitionOf(p.definition.value,
                                                              p.fullDefinition),
                         mCommandRootName |-> p.rootCommandName]]

\* constructor(params): what it throws, or the processor it produces.
Constructor(p) ==
    IF p.isNull
    THEN [thrown |-> ImperativeErr(ERROR_TAG \o " No parameters supplied to constructor.",
                                   Undefined),
          processor |-> NoProcessor]
    ELSE IF p.definition.isNull
    THEN [thrown |-> ImperativeErr(ERROR_TAG \o " No command definition supplied.", Undefined),
          processor |-> NoProcessor]
    ELSE IF ~p.helpGenerator.present
    THEN [thrown |-> ImperativeErr(ERROR_TAG \o " No help generator supplied.", Undefined),
          processor |-> NoProcessor]
    ELSE IF ~p.profileManagerFactory.present
    THEN [thrown |-> ImperativeErr(ERROR_TAG \o " No profile manager factory supplied.",
                                   Undefined),
          processor |-> NoProcessor]
    ELSE IF ConstructorError(p.definition.value, p.rootCommandName) # Undefined
    THEN [thrown |-> ImperativeErr(ConstructorError(p.definition.value, p.rootCommandName),
                                   Undefined),
          processor |-> NoProcessor]
    ELSE [thrown |-> NothingThrown,
          processor |-> [produced |-> TRUE, mDefinition |-> p.definition.value,
                         mFullDefinition |-> FullDefinitionOf(p.definition.value,
                                                              p.fullDefinition),
                         mCommandRootName |-> p.rootCommandName]]

NoCtor == [called |-> FALSE, params |-> NoConstructorParams, thrown |-> NothingThrown,
           processor |-> NoProcessor]
(***************************************************************************)
(* Imperative.getProfileConfiguration(type).                               *)
(***************************************************************************)
\* Profile type configurations; `schema` tells entries of one type apart.
ProfileConfigs == [type : {"banana", "apple"}, schema : {"s1", "s2"}]

\* loadedConfig.profiles: a list, or null/undefined.
ProfileLists ==
    { [isNull |-> FALSE, list |-> l] : l \in SeqsUpTo(ProfileConfigs, MaxProfiles) }
    \cup {[isNull |-> TRUE, list |-> <<>>]}

ProfileTypesAsked == {"banana", "apple", "cherry"}

NoProfileConfig == [found |-> FALSE, config |-> [type |-> Undefined, schema |-> Undefined]]

\* The loop keeping the first entry of the type.
RECURSIVE FindProfileConfig_First(_, _, _)
FindProfileConfig_First(list, type, foundConfig) ==
    IF list = <<>> THEN foundConfig
    ELSE FindProfileConfig_First(Tail(list), type,
                                 IF Head(list).type = type /\ ~foundConfig.found
                                 THEN [found |-> TRUE, config |-> Head(list)]
                                 ELSE foundConfig)

\* for (const profile of profileConfigs) { if (profile.type === type) foundConfig = profile }
RECURSIVE FindProfileConfig(_, _, _)
FindProfileConfig(list, type, foundConfig) ==
    IF list = <<>> THEN foundConfig
    ELSE FindProfileConfig(Tail(list), type,
                           IF Head(list).type = type
                           THEN [found |-> TRUE, config |-> Head(list)]
                           ELSE foundConfig)

\* getProfileConfiguration(type): what it returns and the list as it leaves it.
GetProfileConfiguration(profiles, type) ==
    IF profiles.isNull \/ Len(profiles.list) = 0
    THEN [returned |-> NoProfileConfig, profiles |-> profiles]
    ELSE [returned |-> FindProfileConfig(profiles.list, type, NoProfileConfig),
          profiles |-> profiles]

NoQuery == [asked |-> FALSE, profiles |-> [isNull |-> TRUE, list |-> <<>>],
            type |-> "banana", returned |-> NoProfileConfig,
            after |-> [isNull |-> TRUE, list |-> <<>>]]

(***************************************************************************)
(* State.                                                                  *)
(***************************************************************************)
VARIABLES
    mDefinition,        \* the command definition the processor was built for
    mCommandRootName,   \* the root command name
    pc,                 \* where the current invoke stands
    params,             \* the caller's parameter object, as invoke left it
    response,           \* the response object invoke constructed
    chainedResponse,    \* the response object of the current chain step
    chainedHandlerIndex,\* the loop index of the chained branch
    chainedResponses,   \* data of the chain steps that completed
    bufferedStdOut,     \* stdout carried from step to step
    bufferedStdErr,     \* stderr carried from step to step
    outcome,            \* "none", "returned" or "rejected"
    result,             \* the snapshot invoke resolved with
    rejection,          \* the value invoke rejected with
    invoked,            \* history: the parameters as the caller passed them
    caught,             \* history: the value invoke last caught from a callee
    behaviour,          \* history: what the last handler called did
    trace,              \* history: the stages entered and how each failed
    steps,              \* history: one record per chain iteration begun
    mFullDefinition,    \* the full command tree the processor was built with
    constructed,        \* history: the definition objects as the constructor got them
    cancelSignal,       \* whether the caller has raised its cancellation signal
    prepared,           \* what prepare resolved with ({profiles})
    handed,             \* the parameter object the handler in progress was given
    direct,             \* the outcome of a direct help() or validate() call
    credStore,          \* the credential backend: account -> stored string
    credSaved,          \* history: account -> secret last saved through save()
    credOp,             \* history: the last credential manager call and its outcome
    credLoad,           \* the load call suspended at its await, if any
    credSaving,         \* the save call suspended at its await, if any
    credDeleting,       \* the delete call suspended at its await, if any
    initPhase,          \* where Imperative.init stands
    initCount,          \* how many times init has been called
    mApi,               \* Imperative.mApi
    commandsDefined,    \* whether defineCommands registered the completion callback
    processExitCode,    \* process.exitCode
    completions,        \* history: success of each command completion, in order
    apiAccess,          \* history: the last read of Imperative.api
    initRun,            \* history: the steps and the settlement of the last init call
    logging,            \* the logging configuration being built
    ctor,               \* history: the last CommandProcessor constructor call
    profileQuery        \* history: the last getProfileConfiguration call

vars == <<mDefinition, mCommandRootName, pc, params, response, chainedResponse,
          chainedHandlerIndex, chainedResponses, bufferedStdOut, bufferedStdErr,
          outcome, result, rejection, invoked, caught, behaviour, trace, steps,
          mFullDefinition, constructed, cancelSignal, prepared, handed, direct,
          credStore, credSaved, credOp, credLoad, credSaving, credDeleting,
          initPhase, initCount, mApi, commandsDefined, processExitCode, completions,
          apiAccess, initRun, logging, ctor, profileQuery>>

processorVars == <<mDefinition, mCommandRootName, mFullDefinition, constructed>>
credVars == <<credStore, credSaved, credOp, credLoad, credSaving, credDeleting>>
hostVars == <<initPhase, initCount, mApi, commandsDefined, processExitCode, completions,
              apiAccess, initRun>>
auxVars == <<logging, ctor, profileQuery>>
\* What the actions of invoke never touch.
extVars == <<credVars, hostVars, direct, cancelSignal, auxVars>>
chainVars == <<chainedResponse, chainedHandlerIndex, chainedResponses,
               bufferedStdOut, bufferedStdErr, steps>>

NoSnapshot == BuildJsonResponse(NoResponse)
NoParams == CHOOSE p \in InvokeParams : p.isNull
NoBehaviour == [log |-> "", warn |-> "", callsFailed |-> FALSE, thrown |-> NothingThrown,
                atCall |-> FALSE]
NoHanded == [given |-> FALSE, mutated |-> FALSE,
             definition |-> [shared |-> FALSE, value |-> Undefined],
             fullDefinition |-> [shared |-> FALSE, value |-> Undefined],
             profiles |-> <<>>]
NoCancel == [raised |-> FALSE, at |-> 0]
NoDirect == [op |-> "none", before |-> NoResponse, helpText |-> "", buildHelpCalls |-> 0,
             arguments |-> NoParams.arguments, answer |-> NoAnswer, returned |-> NoAnswer]

\* Everything one invoke call owns, as it is before the call.
Fresh ==
    /\ pc = "idle"
    /\ params = NoParams
    /\ response = NoResponse
    /\ chainedResponse = NoResponse
    /\ chainedHandlerIndex = 0
    /\ chainedResponses = <<>>
    /\ bufferedStdOut = ""
    /\ bufferedStdErr = ""
    /\ outcome = "none"
    /\ result = NoSnapshot
    /\ rejection = NothingThrown
    /\ invoked = NoParams
    /\ caught = NothingThrown
    /\ behaviour = NoBehaviour
    /\ trace = <<>>
    /\ steps = <<>>
    /\ cancelSignal = NoCancel
    /\ prepared = NoPrepared
    /\ handed = NoHanded
    /\ direct = NoDirect

\* No credential manager call was made yet.
CredFresh ==
    /\ credStore = [a \in Accounts |-> Undefined]
    /\ credSaved = [a \in Accounts |-> NoSecret]
    /\ credOp = NoCredOp
    /\ credLoad = NoCredLoad
    /\ credSaving = NoCredSave
    /\ credDeleting = NoCredDelete

\* Imperative.init was not called yet.
HostFresh ==
    /\ initPhase = "none"
    /\ initCount = 0
    /\ mApi = NoApi
    /\ commandsDefined = FALSE
    /\ processExitCode = NoExitCode
    /\ completions = <<>>
    /\ apiAccess = NoApiAccess
    /\ initRun = NoInitRun

\* None of the other calls was made yet.
AuxFresh ==
    /\ logging = NoLogging
    /\ ctor = NoCtor
    /\ profileQuery = NoQuery

\* The processor as its constructor leaves it for the definitions given.
Constructed(definitions, fullDefinitions) ==
    /\ mDefinition \in definitions
    /\ mCommandRootName \in RootCommandNames
    /\ ConstructorError(mDefinition, mCommandRootName) = Undefined
    /\ \E given \in fullDefinitions :
           mFullDefinition = FullDefinitionOf(mDefinition, given)
    /\ constructed = [definition |-> mDefinition, fullDefinition |-> mFullDefinition]

\* A processor exists only for parameters its constructor accepted.
Init ==
    /\ Constructed(Definitions, {FullTree})
    /\ Fresh
    /\ CredFresh
    /\ HostFresh
    /\ AuxFresh

\* invoke resolves with the snapshot finishResponse built, or rejects with what
\* finishResponse threw.
Complete(fin) ==
    /\ pc' = "done"
    /\ outcome' = IF fin.thrown = NothingThrown THEN "returned" ELSE "rejected"
    /\ result' = IF fin.thrown = NothingThrown THEN fin.json ELSE NoSnapshot
    /\ rejection' = fin.thrown

\* invoke rejects with v.
Reject(v) ==
    /\ pc' = "done"
    /\ outcome' = "rejected"
    /\ result' = NoSnapshot
    /\ rejection' = v

Continue(next) ==
    /\ pc' = next
    /\ UNCHANGED <<outcome, result, rejection>>

(***************************************************************************)
(* invoke(params), up to the call of validate.                             *)
(***************************************************************************)
Invoke ==
    /\ pc = "idle"
    /\ \E p \in InvokeParams :
        LET checked == InvokePreCheck(mDefinition, p)
            format == EffectiveFormat(p)
        IN  /\ invoked' = p
            /\ params' = IF p.isNull \/ p.arguments.isNull THEN p
                         ELSE [p EXCEPT !.responseFormat = format]
            /\ IF checked # NothingThrown
               THEN /\ Reject(checked)
                    /\ UNCHANGED <<response, trace>>
               ELSE /\ response' = Succeeded(ConstructResponseObject(p.silent, format))
                    /\ trace' = <<"validate">>
                    /\ Continue("validate")
    /\ UNCHANGED <<processorVars, chainVars, caught, behaviour, prepared, handed, extVars>>

\* Validate with the return after an invalid syntax missing: invoke goes on to
\* prepare.
Validate_FallsThrough ==
    /\ pc = "validate"
    /\ response' = SyntaxInvalid(response, mDefinition, mCommandRootName,
                                 params.arguments.positionals)
    /\ trace' = trace \o <<"validate:invalid", "prepare">>
    /\ prepared' = PrepareCalled
    /\ Continue("prepare")
    /\ UNCHANGED <<processorVars, params, chainVars, invoked, caught, behaviour,
                   handed, extVars>>

(***************************************************************************)
(* validate settles: the validator threw, or answered valid or not.        *)
(***************************************************************************)
Validate ==
    /\ pc = "validate"
    /\ \/ \E e \in ThrownValues :
            LET handled == ValidateCatch(response, e) IN
            /\ caught' = e
            /\ prepared' = prepared
            /\ IF handled.thrown # NothingThrown
               THEN /\ response' = handled.response
                    /\ trace' = Append(trace, "validate:threw")
                    /\ Reject(handled.thrown)
               ELSE LET fin == FinishResponse(handled.response) IN
                    /\ response' = fin.response
                    /\ trace' = trace \o <<"validate:threw", "finish">>
                    /\ Complete(fin)
       \/ LET fin == FinishResponse(SyntaxInvalid(response, mDefinition, mCommandRootName,
                                                  params.arguments.positionals))
          IN  /\ response' = fin.response
              /\ trace' = trace \o <<"validate:invalid", "finish">>
              /\ caught' = caught
              /\ prepared' = prepared
              /\ Complete(fin)
       \/ /\ trace' = Append(trace, "prepare")
          /\ prepared' = PrepareCalled
          /\ Continue("prepare")
          /\ UNCHANGED <<response, caught>>
    /\ UNCHANGED <<processorVars, params, chainVars, invoked, behaviour, handed, extVars>>

(***************************************************************************)
(* prepare(): it awaits SharedOptions.readStdinIfRequested and then the    *)
(* profile loader, and the catch block of invoke takes what either throws. *)
(***************************************************************************)
\* The catch block around prepare took e.
PrepareFailed(e) ==
    LET handled == PrepareCatch(response, e) IN
    /\ caught' = e
    /\ prepared' = prepared
    /\ IF handled.thrown # NothingThrown
       THEN /\ response' = handled.response
            /\ trace' = Append(trace, "prepare:threw")
            /\ Reject(handled.thrown)
       ELSE LET fin == FinishResponse(handled.response) IN
            /\ response' = fin.response
            /\ trace' = trace \o <<"prepare:threw", "finish">>
            /\ Complete(fin)

\* The read of stdin settles: it threw, or prepare goes on to call the profile
\* loader and waits for it.
Prepare ==
    /\ pc = "prepare"
    /\ \/ \E e \in ThrownValues : PrepareFailed(e)
       \/ /\ prepared' = [prepared EXCEPT !.calls = PrepareCalls]
          /\ Continue("loadProfiles")
          /\ UNCHANGED <<response, caught, trace>>
    /\ UNCHANGED <<processorVars, params, chainVars, invoked, behaviour, handed, extVars>>

\* The profile load settles: it threw, or prepare returns {profiles}.
LoadProfiles ==
    /\ pc = "loadProfiles"
    /\ \/ \E e \in ThrownValues : PrepareFailed(e)
       \/ /\ prepared' = PrepareProfiles(mDefinition)
          /\ Continue("execute")
          /\ UNCHANGED <<response, caught, trace>>
    /\ UNCHANGED <<processorVars, params, chainVars, invoked, behaviour, handed, extVars>>

(***************************************************************************)
(* The branch invoke takes once prepared:                                  *)
(* if (handler != null) ... else if (chainedHandlers != null) ...          *)
(***************************************************************************)
\* The single-handler branch taken only by a definition without a chain.
SingleHandlerBranch_UnlessChained(def) == def.handler # Undefined /\ ~def.hasChain

SingleHandlerBranch(def) == def.handler # Undefined

ChainedHandlersBranch(def) == ~SingleHandlerBranch(def) /\ def.hasChain

(***************************************************************************)
(* The single-handler branch: load the handler, then call its process.     *)
(***************************************************************************)
LoadHandler ==
    /\ pc = "execute"
    /\ SingleHandlerBranch(mDefinition)
    /\ LET load == AttemptHandlerLoad(response, mDefinition.handler, mDefinition) IN
       IF ~load.loaded
       THEN LET fin == FinishResponse(load.response) IN
            /\ response' = fin.response
            /\ trace' = trace \o <<"load", "load:failed", "finish">>
            /\ Complete(fin)
            /\ handed' = handed
       ELSE /\ response' = EffectsAtCall(load.response, mDefinition.handler,
                                          HandlerParams(mDefinition, mFullDefinition,
                                                        prepared).profiles)
            /\ trace' = trace \o <<"load", "process">>
            /\ handed' = HandlerParams(mDefinition, mFullDefinition, prepared)
            /\ Continue("process")
    /\ UNCHANGED <<processorVars, params, chainVars, invoked, caught, behaviour,
                   prepared, extVars>>

\* handler.process settles, and invoke finishes the response.
Process ==
    /\ pc = "process"
    /\ \E b \in BehavioursOf(mDefinition.handler, handed.profiles) :
        LET handled == EffectsAtSettle(response, b)
            after == IF b.thrown # NothingThrown
                     THEN HandleHandlerError(b.thrown, handled, mDefinition.handler)
                     ELSE EndProgressBar(Succeeded(handled))
            fin == FinishResponse(after)
        IN  /\ behaviour' = b
            /\ caught' = b.thrown
            /\ response' = fin.response
            /\ trace' = IF b.thrown # NothingThrown
                        THEN trace \o <<"process:threw", "finish">>
                        ELSE Append(trace, "finish")
            /\ Complete(fin)
    /\ UNCHANGED <<processorVars, params, chainVars, invoked, prepared, handed, extVars>>

(***************************************************************************)
(* The chained branch: one loop iteration is a load and a process; the     *)
(* loop's exit finishes the last step's response.                          *)
(***************************************************************************)
ChainLoad ==
    /\ pc = "execute"
    /\ ChainedHandlersBranch(mDefinition)
    /\ chainedHandlerIndex < Len(mDefinition.chainedHandlers)
    /\ LET chainedHandler == mDefinition.chainedHandlers[chainedHandlerIndex + 1]
           load == AttemptHandlerLoad(response, chainedHandler.handler, mDefinition)
       IN  IF ~load.loaded
           THEN LET fin == FinishResponse(load.response) IN
                /\ response' = fin.response
                /\ chainedResponse' = chainedResponse
                /\ trace' = trace \o <<"load", "load:failed", "finish">>
                /\ steps' = Append(steps, StepRecord(chainedHandlerIndex, FALSE,
                                       mDefinition.chainedHandlers, chainedResponses,
                                       params.arguments, bufferedStdOut, bufferedStdErr))
                /\ handed' = handed
                /\ Complete(fin)
           ELSE LET fresh == ConstructResponseObject(
                                 chainedHandler.silent,
                                 IF params.arguments.json THEN "json" ELSE "default")
                IN  /\ response' = load.response
                    /\ chainedResponse' = EffectsAtCall(
                                              SeedResponse(fresh, bufferedStdOut,
                                                           bufferedStdErr),
                                              chainedHandler.handler,
                                              HandlerParams(mDefinition, mFullDefinition,
                                                            prepared).profiles)
                    /\ trace' = trace \o <<"load", "process">>
                    /\ steps' = Append(steps, StepRecord(chainedHandlerIndex, TRUE,
                                           mDefinition.chainedHandlers, chainedResponses,
                                           params.arguments, bufferedStdOut, bufferedStdErr))
                    /\ handed' = HandlerParams(mDefinition, mFullDefinition, prepared)
                    /\ Continue("chainProcess")
    /\ UNCHANGED <<processorVars, params, chainedHandlerIndex, chainedResponses,
                   bufferedStdOut, bufferedStdErr, invoked, caught, behaviour,
                   prepared, extVars>>

\* The step's process settles.
ChainProcess ==
    /\ pc = "chainProcess"
    /\ \E b \in BehavioursOf(mDefinition.chainedHandlers[chainedHandlerIndex + 1].handler,
                           handed.profiles) :
        LET handled == EffectsAtSettle(chainedResponse, b)
            builtResponse == BuildJsonResponse(handled)
        IN
        /\ behaviour' = b
        /\ caught' = b.thrown
        /\ steps' = [steps EXCEPT ![Len(steps)] =
                        [@ EXCEPT !.settled = TRUE, !.behaviour = b,
                                  !.data = builtResponse.data]]
        /\ IF StepStops(b.thrown)
           THEN LET fin == FinishResponse(
                               HandleHandlerError(b.thrown, handled,
                                   mDefinition.chainedHandlers[chainedHandlerIndex + 1].handler))
                IN  /\ chainedResponse' = fin.response
                    /\ trace' = trace \o <<"process:threw", "finish">>
                    /\ Complete(fin)
                    /\ UNCHANGED <<chainedHandlerIndex, chainedResponses,
                                   bufferedStdOut, bufferedStdErr>>
           ELSE /\ chainedResponse' = handled
                /\ chainedResponses' = PushData(chainedResponses, builtResponse.data)
                /\ bufferedStdOut' = builtResponse.stdout
                /\ bufferedStdErr' = builtResponse.stderr
                /\ chainedHandlerIndex' = chainedHandlerIndex + 1
                /\ trace' = trace
                /\ Continue("execute")
    /\ UNCHANGED <<processorVars, params, response, invoked, prepared, handed, extVars>>

\* Every step completed (or there was none).
ChainDone ==
    /\ pc = "execute"
    /\ ChainedHandlersBranch(mDefinition)
    /\ chainedHandlerIndex = Len(mDefinition.chainedHandlers)
    /\ LET fin == FinishResponse(chainedResponse) IN
       /\ response' = EndProgressBar(Succeeded(response))
       /\ chainedResponse' = fin.response
       /\ trace' = Append(trace, "finish")
       /\ Complete(fin)
    /\ UNCHANGED <<processorVars, params, chainedHandlerIndex, chainedResponses,
                   bufferedStdOut, bufferedStdErr, invoked, caught, behaviour, steps,
                   prepared, handed, extVars>>

\* The caller has taken the settled promise; the processor can be invoked again.
Settled ==
    /\ pc = "done"
    /\ pc' = "idle"
    /\ params' = NoParams
    /\ response' = NoResponse
    /\ chainedResponse' = NoResponse
    /\ chainedHandlerIndex' = 0
    /\ chainedResponses' = <<>>
    /\ bufferedStdOut' = ""
    /\ bufferedStdErr' = ""
    /\ outcome' = "none"
    /\ result' = NoSnapshot
    /\ rejection' = NothingThrown
    /\ invoked' = NoParams
    /\ caught' = NothingThrown
    /\ behaviour' = NoBehaviour
    /\ trace' = <<>>
    /\ steps' = <<>>
    /\ cancelSignal' = NoCancel
    /\ prepared' = NoPrepared
    /\ handed' = NoHanded
    /\ direct' = NoDirect
    /\ UNCHANGED <<processorVars, credVars, hostVars, auxVars>>

Next ==
    \/ Invoke
    \/ Validate
    \/ Prepare
    \/ LoadProfiles
    \/ LoadHandler
    \/ Process
    \/ ChainLoad
    \/ ChainProcess
    \/ ChainDone
    \/ Settled

Spec == Init /\ [][Next]_vars

invokeVars == <<pc, params, response, chainVars, outcome, result, rejection, invoked,
                caught, behaviour, trace, prepared, handed>>

\* A processor for a short chain, built with or without a full definition.
InitSmall ==
    /\ Constructed({ d \in Definitions : Len(d.chainedHandlers) <= 2 },
                   {NoFullTree, FullTree})
    /\ Fresh
    /\ CredFresh
    /\ HostFresh
    /\ AuxFresh

(***************************************************************************)
(* The caller's cancellation signal.  invoke takes no such signal and      *)
(* reads none; the caller raises it at any moment up to the execute stage. *)
(***************************************************************************)
RaiseCancel ==
    /\ ~cancelSignal.raised
    /\ pc \in {"idle", "validate", "prepare", "loadProfiles", "execute"}
    /\ cancelSignal' = [raised |-> TRUE, at |-> Len(trace)]
    /\ UNCHANGED <<processorVars, invokeVars, direct, credVars, hostVars, auxVars>>

SpecCancel == InitSmall /\ [][Next \/ RaiseCancel]_vars

(***************************************************************************)
(* help and validate called directly on an idle processor, and a handler   *)
(* changing the definition it was given.                                   *)
(***************************************************************************)
\* The response objects a caller passes: none, or one with or without output
\* already buffered.
DirectResponses ==
    {NoResponse}
    \cup { NewResponse(silent, format) : silent \in BOOLEAN, format \in {"default", "json"} }
    \cup { Failed(ConsoleLog(NewResponse(FALSE, "default"), "earlier")) }

HelpCall ==
    /\ pc = "idle"
    /\ \E r \in DirectResponses, text \in HelpTexts :
        LET h == HelpCommand(r, mDefinition, text) IN
        /\ direct' = [NoDirect EXCEPT !.op = "help", !.before = r, !.helpText = text,
                                      !.buildHelpCalls = h.buildHelpCalls]
        /\ response' = h.response
        /\ Complete(h)
    /\ UNCHANGED <<processorVars, params, chainVars, invoked, caught, behaviour, trace,
                   prepared, handed, cancelSignal, credVars, hostVars, auxVars>>

ValidateCall ==
    /\ pc = "idle"
    /\ \E args \in ArgumentValues, r \in DirectResponses,
          answer \in ValidatorAnswers, e \in {NothingThrown, PlainErr("boom", "at x")} :
        LET v == ValidateCommand(args, r, answer, e) IN
        /\ direct' = [NoDirect EXCEPT !.op = "validate", !.before = r, !.arguments = args,
                                      !.answer = answer, !.returned = v.returned]
        /\ response' = v.response
        /\ pc' = "done"
        /\ outcome' = IF v.thrown = NothingThrown THEN "returned" ELSE "rejected"
        /\ rejection' = v.thrown
        /\ result' = result
    /\ UNCHANGED <<processorVars, params, chainVars, invoked, caught, behaviour, trace,
                   prepared, handed, cancelSignal, credVars, hostVars, auxVars>>

\* What a handler's assignment does to a definition object.
Renamed(def) == [def EXCEPT !.name = "renamed"]

\* The handler in progress renames the definition and the full definition it
\* was given; an object it shares with the processor changes for both.
HandlerMutates ==
    /\ pc \in {"process", "chainProcess"}
    /\ handed.given
    /\ ~handed.mutated
    /\ handed' = [handed EXCEPT !.mutated = TRUE,
                                !.definition.value = Renamed(@),
                                !.fullDefinition.value = Renamed(@)]
    /\ mDefinition' = IF handed.definition.shared THEN Renamed(mDefinition) ELSE mDefinition
    /\ mFullDefinition' = IF handed.fullDefinition.shared THEN Renamed(mFullDefinition)
                          ELSE mFullDefinition
    /\ UNCHANGED <<mCommandRootName, constructed, pc, params, response, chainVars, outcome,
                   result, rejection, invoked, caught, behaviour, trace, prepared,
                   extVars>>

SpecCalls == InitSmall /\ [][Next \/ HelpCall \/ ValidateCall \/ HandlerMutates]_vars

(***************************************************************************)
(* The credential manager: save, load and delete on a backend that keeps   *)
(* the string last saved per account.                                      *)
(***************************************************************************)
\* save(account, secureValue) is called.  With a null or empty secret it
\* throws before it calls the backend, and its promise is rejected; otherwise
\* it calls saveCredentials, which is given the string to keep, and is
\* suspended at its await.
CredSaveCall ==
    /\ ~credSaving.pending
    /\ \E account \in Accounts, secureValue \in SecureValues :
        LET saved == CredentialSave(account, secureValue) IN
        IF saved.thrown # NothingThrown
        THEN /\ credOp' = [NoCredOp EXCEPT !.op = "save", !.account = account,
                                           !.secureValue = secureValue,
                                           !.calls = saved.calls, !.thrown = saved.thrown]
             /\ UNCHANGED <<credStore, credSaved, credSaving>>
        ELSE /\ credStore' = BackendSave(credStore, saved.calls[1])
             /\ credSaved' = [credSaved EXCEPT ![account] = secureValue]
             /\ credSaving' = [pending |-> TRUE, account |-> account,
                               secureValue |-> secureValue, calls |-> saved.calls]
             /\ credOp' = credOp
    /\ UNCHANGED <<processorVars, invokeVars, direct, cancelSignal, hostVars, auxVars,
                   credLoad, credDeleting>>

\* saveCredentials settles and save resolves; loads, deletes and their
\* settlements may have happened since save was called.
CredSave ==
    /\ credSaving.pending
    /\ credOp' = [NoCredOp EXCEPT !.op = "save", !.account = credSaving.account,
                                  !.secureValue = credSaving.secureValue,
                                  !.calls = credSaving.calls]
    /\ credSaving' = NoCredSave
    /\ UNCHANGED <<processorVars, invokeVars, direct, cancelSignal, hostVars, auxVars,
                   credStore, credSaved, credLoad, credDeleting>>

\* load(account) is called: loadCredentials reads the backend, and load is
\* suspended at its await.
CredLoadCall ==
    /\ ~credLoad.pending
    /\ \E account \in Accounts :
        credLoad' = [pending |-> TRUE, account |-> account,
                     encodedString |-> BackendLoad(credStore, account),
                     answered |-> credSaved[account]]
    /\ UNCHANGED <<processorVars, invokeVars, direct, cancelSignal, hostVars, auxVars,
                   credStore, credSaved, credOp, credSaving, credDeleting>>

\* load resumes with the backend's answer, decodes it and settles; saves and
\* deletes may have been called and settled since the backend was read.
CredLoad ==
    /\ credLoad.pending
    /\ LET loaded == CredentialLoad(credLoad.encodedString) IN
       credOp' = [NoCredOp EXCEPT !.op = "load", !.account = credLoad.account,
                                  !.value = loaded.value, !.answered = credLoad.answered,
                                  !.thrown = loaded.thrown]
    /\ credLoad' = NoCredLoad
    /\ UNCHANGED <<processorVars, invokeVars, direct, cancelSignal, hostVars, auxVars,
                   credStore, credSaved, credSaving, credDeleting>>

\* delete(account) is called: it calls deleteCredentials and is suspended at
\* its await.
CredDeleteCall ==
    /\ ~credDeleting.pending
    /\ \E account \in Accounts :
        /\ credStore' = BackendDelete(credStore, account)
        /\ credSaved' = [credSaved EXCEPT ![account] = NoSecret]
        /\ credDeleting' = [pending |-> TRUE, account |-> account]
    /\ UNCHANGED <<processorVars, invokeVars, direct, cancelSignal, hostVars, auxVars,
                   credOp, credLoad, credSaving>>

\* deleteCredentials settles and delete resolves.
CredDelete ==
    /\ credDeleting.pending
    /\ credOp' = [NoCredOp EXCEPT !.op = "delete", !.account = credDeleting.account]
    /\ credDeleting' = NoCredDelete
    /\ UNCHANGED <<processorVars, invokeVars, direct, cancelSignal, hostVars, auxVars,
                   credStore, credSaved, credLoad, credSaving>>

\* One processor; the credential manager does not depend on it.
InitOther ==
    /\ Constructed({ d \in Definitions : d.handler = "h_ok" /\ d.chainedHandlers = <<>> /\ ~d.hasChain
                                         /\ d.type = "command" },
                   {FullTree})
    /\ Fresh
    /\ CredFresh
    /\ HostFresh
    /\ AuxFresh

SpecCred ==
    InitOther /\ [][CredSaveCall \/ CredSave \/ CredLoadCall \/ CredLoad
                      \/ CredDeleteCall \/ CredDelete]_vars

(***************************************************************************)
(* Imperative.init, the api accessor and command completions.              *)
(***************************************************************************)
\* init() is called and runs to its first await, or fails before it.
InitCall ==
    /\ initPhase # "awaiting"
    /\ initCount < MaxInits
    /\ initCount' = initCount + 1
    /\ \E allowPlugins \in BOOLEAN, children \in 0..MaxChildren :
        LET plan == InitPlan(allowPlugins)
            run == [NoInitRun EXCEPT !.allowPlugins = allowPlugins, !.children = children]
        IN  \/ /\ initPhase' = "awaiting"
               /\ initRun' = [run EXCEPT !.trace = StepsThrough(plan, "overrides"),
                                        !.outcome = "pending"]
            \/ \E failedAt \in InitSyncFailures, e \in InitThrows :
                /\ initPhase' = "rejected"
                /\ initRun' = [run EXCEPT !.trace = StepsThrough(plan, failedAt),
                                         !.settles = 1, !.outcome = "rejected",
                                         !.thrown = e, !.rejection = InitRejection(e)]
    /\ UNCHANGED <<mApi, commandsDefined, processExitCode, completions, apiAccess>>
    /\ UNCHANGED <<processorVars, invokeVars, direct, cancelSignal, credVars, auxVars>>

\* init() continues after the overrides are loaded and settles.
InitSettles ==
    /\ initPhase = "awaiting"
    /\ LET plan == InitPlan(initRun.allowPlugins)
           Planned(failures) == { step \in failures : \E i \in 1..Len(plan) : plan[i] = step }
           Rejected(taken, e) ==
               [initRun EXCEPT !.trace = taken, !.settles = @ + 1, !.outcome = "rejected",
                               !.thrown = e, !.rejection = InitRejection(e)]
       IN
       \/ /\ \E failedAt \in Planned(InitFailuresBeforeApi), e \in InitThrows :
                initRun' = Rejected(StepsThrough(plan, failedAt), e)
          /\ initPhase' = "rejected"
          /\ UNCHANGED <<mApi, commandsDefined>>
       \/ /\ \E failedAt \in Planned(InitFailuresAfterApi) \ {"defineCommands"},
                e \in InitThrows :
                initRun' = Rejected(StepsThrough(plan, failedAt), e)
          /\ initPhase' = "rejected"
          /\ mApi' = ConstructApiObject(initCount)
          /\ UNCHANGED commandsDefined
       \/ /\ \E failedChild \in 1..initRun.children, e \in InitThrows :
                /\ initRun' = Rejected(plan \o DefineCommands(initRun.children, failedChild), e)
                /\ commandsDefined' = (commandsDefined \/ failedChild > 1)
          /\ initPhase' = "rejected"
          /\ mApi' = ConstructApiObject(initCount)
       \/ /\ initRun' = [initRun EXCEPT
                            !.trace = plan \o DefineCommands(initRun.children, 0)
                                          \o <<"complete">>,
                            !.settles = @ + 1, !.outcome = "resolved"]
          /\ initPhase' = "resolved"
          /\ mApi' = ConstructApiObject(initCount)
          /\ commandsDefined' = (commandsDefined \/ initRun.children > 0)
    /\ UNCHANGED <<initCount, processExitCode, completions, apiAccess>>
    /\ UNCHANGED <<processorVars, invokeVars, direct, cancelSignal, credVars, auxVars>>

\* Some code reads Imperative.api.
ApiGet ==
    /\ LET got == ApiGetter(mApi) IN
       apiAccess' = [read |-> TRUE, phase |-> initPhase, inits |-> initCount,
                     value |-> got.value, thrown |-> got.thrown]
    /\ UNCHANGED <<initPhase, initCount, mApi, commandsDefined, processExitCode, completions,
                   initRun>>
    /\ UNCHANGED <<processorVars, invokeVars, direct, cancelSignal, credVars, auxVars>>

\* A defined command completes and the callback sees its response.
CommandCompletes ==
    /\ commandsDefined
    /\ Len(completions) < MaxCompletions
    /\ \E success \in BOOLEAN :
        /\ processExitCode' = ExitCodeAfter(processExitCode, success)
        /\ completions' = Append(completions, success)
    /\ UNCHANGED <<initPhase, initCount, mApi, commandsDefined, apiAccess, initRun>>
    /\ UNCHANGED <<processorVars, invokeVars, direct, cancelSignal, credVars, auxVars>>

(***************************************************************************)
(* LoggingConfigurer.configureLogger: a configuration without a name is   *)
(* rejected; the loggers of any other are entered one by one.              *)
(***************************************************************************)
LogConfigure ==
    /\ logging.stage # "building"
    /\ \E input \in LoggingInputs :
           logging' = [stage |-> IF LoggingRejection(input) # Undefined THEN "rejected"
                                 ELSE "building",
                       input |-> input, entered |-> 0, log4jsConfig |-> EmptyLog4js,
                       thrownMessage |-> LoggingRejection(input)]
    /\ UNCHANGED <<processorVars, invokeVars, direct, cancelSignal, credVars, hostVars,
                   ctor, profileQuery>>

LogEnter ==
    /\ logging.stage = "building"
    /\ LET loggers == LoggersOf(logging.input)
           next == loggers[logging.entered + 1]
       IN  logging' = [logging EXCEPT
                          !.entered = @ + 1,
                          !.log4jsConfig = ConfigureLoggerByKey(@, next.key, next.level,
                                                                next.filename),
                          !.stage = IF logging.entered + 1 = Len(loggers) THEN "produced"
                                    ELSE "building"]
    /\ UNCHANGED <<processorVars, invokeVars, direct, cancelSignal, credVars, hostVars,
                   ctor, profileQuery>>

\* Some code calls new CommandProcessor(params).
ConstructorCall ==
    /\ ~ctor.called
    /\ LET made == Constructor(ctor.params) IN
       ctor' = [called |-> TRUE, params |-> ctor.params, thrown |-> made.thrown,
                processor |-> made.processor]
    /\ UNCHANGED <<processorVars, invokeVars, direct, cancelSignal, credVars, hostVars,
                   logging, profileQuery>>

\* The parameters a caller is about to construct a processor with.
InitConstructor ==
    /\ Constructed({ d \in Definitions : d.handler = "h_ok" /\ d.chainedHandlers = <<>>
                                         /\ ~d.hasChain /\ d.type = "command" },
                   {FullTree})
    /\ Fresh
    /\ CredFresh
    /\ HostFresh
    /\ logging = NoLogging
    /\ profileQuery = NoQuery
    /\ \E p \in ConstructorParams : ctor = [NoCtor EXCEPT !.params = p]

SpecConstructor == InitConstructor /\ [][ConstructorCall]_vars

\* Some code calls Imperative.getProfileConfiguration(type).
ProfileConfigurationCall ==
    /\ ~profileQuery.asked
    /\ LET got == GetProfileConfiguration(profileQuery.profiles, profileQuery.type) IN
       profileQuery' = [profileQuery EXCEPT !.asked = TRUE, !.returned = got.returned,
                                            !.after = got.profiles]
    /\ UNCHANGED <<processorVars, invokeVars, direct, cancelSignal, credVars, hostVars,
                   logging, ctor>>

\* The loaded configuration's profiles and the type about to be asked for.
InitProfileConfiguration ==
    /\ Constructed({ d \in Definitions : d.handler = "h_ok" /\ d.chainedHandlers = <<>>
                                         /\ ~d.hasChain /\ d.type = "command" },
                   {FullTree})
    /\ Fresh
    /\ CredFresh
    /\ HostFresh
    /\ logging = NoLogging
    /\ ctor = NoCtor
    /\ \E profiles \in ProfileLists, type \in ProfileTypesAsked :
           profileQuery = [NoQuery EXCEPT !.profiles = profiles, !.type = type,
                                          !.after = profiles]

SpecProfileConfiguration == InitProfileConfiguration /\ [][ProfileConfigurationCall]_vars

SpecLog == InitOther /\ [][LogConfigure \/ LogEnter]_vars

SpecHost == InitOther /\ [][InitCall \/ InitSettles \/ ApiGet \/ CommandCompletes]_vars

(***************************************************************************)
(* Properties.                                                             *)
(***************************************************************************)
Occurred(event) == \E i \in 1..Len(trace) : trace[i] = event

StartsWith(s, prefix) == Len(s) >= Len(prefix) /\ SubSeq(s, 1, Len(prefix)) = prefix
EndsWith(s, suffix) ==
    Len(s) >= Len(suffix) /\ SubSeq(s, Len(s) - Len(suffix) + 1, Len(s)) = suffix
Contains(s, part) ==
    \E i \in 1..(Len(s) - Len(part) + 1) : SubSeq(s, i, i + Len(part) - 1) = part

\* invoke settled right after a handler's process settled.
ProcessEnded ==
    /\ pc = "done"
    /\ Len(trace) >= 2
    /\ trace[Len(trace)] = "finish"
    /\ trace[Len(trace) - 1] \in {"process", "process:threw"}

FailureEvents == {"validate:threw", "validate:invalid", "prepare:threw",
                  "load:failed", "process:threw"}

\* C1: every snapshot invoke returns has exitCode = 0 exactly when success is
\* true, and success true exactly when error is null, on every return path.
C1_ExitSuccessErrorAgree ==
    outcome = "returned" =>
        /\ (result.exitCode = 0) <=> result.success
        /\ result.success <=> ~result.error.set

\* C2: the stages of one invoke run in the order validate, prepare, handler
\* load, handler process, finish; once a stage has failed nothing but finish
\* follows; and an invoke that returns called finishResponse exactly once, last.
C2_StagesInOrder ==
    /\ \A i \in 1..Len(trace) :
        /\ (trace[i] = "validate") <=> (i = 1)
        /\ trace[i] = "prepare" => i = 2
        /\ trace[i] = "load" => i > 2 /\ trace[2] = "prepare"
        /\ trace[i] = "process" => i > 1 /\ trace[i - 1] = "load"
        /\ trace[i] \in FailureEvents =>
               \A j \in (i + 1)..Len(trace) : trace[j] = "finish"
        /\ trace[i] = "finish" => i = Len(trace)
    /\ outcome = "returned" => Len(trace) > 0 /\ trace[Len(trace)] = "finish"
    /\ pc \in {"execute", "process", "chainProcess"} =>
           ~\E i \in 1..Len(trace) : trace[i] \in FailureEvents

\* C2 witness: an invoke returned after its prepare stage failed.
C2_Witness == outcome = "returned" /\ Occurred("prepare:threw")

\* C3: when prepare throws an error, ImperativeError or not, with a message or
\* without, invoke returns a failed snapshot whose error carries the thrown
\* error's message and additionalDetails; invoke does not reject.
C3_PrepareFailureReturns ==
    (pc = "done" /\ Occurred("prepare:threw") /\ InstanceOfError(caught)) =>
        /\ outcome = "returned"
        /\ ~result.success
        /\ result.error.set
        /\ caught.message # "" => result.error.msg = caught.message
        /\ result.error.additionalDetails = caught.additionalDetails

\* C4: an invoke with well-formed parameters, on a definition that carries a
\* handler or a list of chained handlers, returns a snapshot and does not
\* reject, also when no callee throws.
C4_InvokeNeverRejects ==
    (/\ pc = "done"
     /\ ~invoked.isNull /\ ~invoked.arguments.isNull /\ invoked.arguments.hasArray
     /\ invoked.responseFormat \in {Undefined, "default", "json"}
     /\ mDefinition.hasChain \/ mDefinition.handler # Undefined
     /\ caught = NothingThrown)
        => outcome = "returned"

\* The pre-check violations, stated on the caller's input.
PreCheckViolated ==
    /\ ~invoked.isNull
    /\ ~invoked.arguments.isNull
    /\ \/ invoked.responseFormat \notin {Undefined, "default", "json"}
       \/ ~invoked.arguments.hasArray
       \/ /\ ~mDefinition.hasChain
          /\ (mDefinition.handler = Undefined \/ Trim(mDefinition.handler) = "")

\* C5: a pre-check violation (a response format other than default and json,
\* arguments without a positional array, a definition with neither a non-blank
\* handler nor chained handlers) yields an immediately returned failed
\* response, before any validation, preparation or handler work.
C5_PreCheckReturnsFailedResponse ==
    (pc = "done" /\ PreCheckViolated) =>
        outcome = "returned" /\ ~result.success /\ trace = <<>>

\* C6 as stated: when the validator throws an error, invoke returns a failed
\* snapshot with error message "Unexpected syntax validation error" and the
\* cause chain set from the thrown error, and neither prepare nor a handler runs.
C6_ValidatorThrowSetsCauseChain ==
    (pc = "done" /\ Occurred("validate:threw") /\ InstanceOfError(caught)) =>
        /\ outcome = "returned"
        /\ ~result.success
        /\ result.error.msg = "Unexpected syntax validation error"
        /\ result.error.causeErrors # Undefined
        /\ ~Occurred("prepare") /\ ~Occurred("load") /\ ~Occurred("process")

\* C6 amended: when the validator throws an error (or any value other than null
\* and undefined), invoke returns a failed snapshot whose error has msg "Unexpected syntax
\* validation error", additionalDetails equal to the thrown value's message
\* and no cause chain, whose message is that text, ": " and the thrown message;
\* neither prepare nor a handler runs.
C6_ValidatorThrowSetsDetails ==
    (pc = "done" /\ Occurred("validate:threw") /\ ~IsNullish(caught)) =>
        /\ outcome = "returned"
        /\ ~result.success
        /\ result.exitCode = ERROR_EXIT_CODE
        /\ result.error.set
        /\ result.error.msg = "Unexpected syntax validation error"
        /\ result.error.additionalDetails = caught.message
        /\ result.error.causeErrors = Undefined
        /\ result.message = "Unexpected syntax validation error: " \o Str(caught.message)
        /\ trace = <<"validate", "validate:threw", "finish">>

\* C6 witness: the validator threw an error with a message and invoke returned.
C6_Witness ==
    /\ pc = "done" /\ Occurred("validate:threw") /\ outcome = "returned"
    /\ caught = PlainErr("boom", "at x")

\* The positionals separated by single spaces, built from the right.
RECURSIVE SpaceSeparated(_)
SpaceSeparated(list) ==
    IF Len(list) = 0 THEN ""
    ELSE IF Len(list) = 1 THEN list[1]
    ELSE SpaceSeparated(SubSeq(list, 1, Len(list) - 1)) \o " " \o list[Len(list)]

\* C7: on valid = false invoke returns a failed snapshot with message "Command
\* syntax invalid" and stderr holds the hint `Use "<root> <positionals joined
\* by space> --help"`, or the hint built from the definition name when there
\* are no positionals.
C7_InvalidSyntaxHint ==
    (pc = "done" /\ Occurred("validate:invalid")) =>
        /\ outcome = "returned"
        /\ ~result.success
        /\ result.message = "Command syntax invalid"
        /\ LET positionals == invoked.arguments.positionals
               hint == IF Len(positionals) > 0
                       THEN "Use \"" \o mCommandRootName \o " "
                                \o SpaceSeparated(positionals) \o " --help\""
                       ELSE "Use \"" \o mDefinition.name \o " --help\""
           IN  /\ Contains(result.stderr, hint)
               /\ ~response.silent => Contains(response.liveErr, hint)
        /\ trace = <<"validate", "validate:invalid", "finish">>

\* C7 witness: invalid syntax reported for an invocation with two positionals.
C7_Witness ==
    /\ pc = "done" /\ Occurred("validate:invalid") /\ outcome = "returned"
    /\ Len(invoked.arguments.positionals) = 2

\* C8 as stated: a handler that throws, or that calls response.failed() and
\* returns, yields success = false; one that returns without marking failure
\* yields success = true.
C8_HandlerSignalsFailure ==
    (ProcessEnded /\ outcome = "returned") =>
        /\ (behaviour.thrown # NothingThrown \/ behaviour.callsFailed) => ~result.success
        /\ (behaviour.thrown = NothingThrown /\ ~behaviour.callsFailed) => result.success

\* C8 amended: a handler that throws or rejects yields success = false; the
\* handler of a single-handler command that returns normally yields
\* success = true, whether or not it called response.failed() before returning.
C8_ThrowFailsReturnSucceeds ==
    (ProcessEnded /\ outcome = "returned") =>
        /\ behaviour.thrown # NothingThrown => ~result.success /\ result.exitCode = ERROR_EXIT_CODE
        /\ (mDefinition.handler # Undefined /\ behaviour.thrown = NothingThrown) =>
               result.success /\ result.exitCode = 0

\* C8 witness: a single handler called response.failed(), returned, and the
\* snapshot reports success.
C8_Witness ==
    /\ ProcessEnded /\ outcome = "returned" /\ mDefinition.handler # Undefined
    /\ behaviour.callsFailed /\ result.success

\* C9: a handler that throws a value that is no Error, string, null or
\* undefined yields success = false, exitCode 1 and a non-null error with
\* message "Unexpected Command Error" and additionalDetails the JSON text of
\* the thrown value.
C9_UnexpectedThrowRecord ==
    (ProcessEnded /\ outcome = "returned" /\ caught.type \in {"number", "object"}) =>
        /\ ~result.success
        /\ result.exitCode = ERROR_EXIT_CODE
        /\ result.error.set
        /\ result.error.msg = UnexpectedCommandError
        /\ result.error.additionalDetails = caught.json

\* C10 as stated: for a thrown generic Error the error record's message is
\* "Unexpected Command Error" followed by the original message, and the stack
\* is carried in additionalDetails.
C10_GenericErrorRecord ==
    (ProcessEnded /\ outcome = "returned" /\ caught.type = "Error") =>
        /\ StartsWith(result.error.msg, UnexpectedCommandError)
        /\ EndsWith(result.error.msg, caught.message)
        /\ result.error.additionalDetails = caught.stack

\* C10 amended: for a thrown generic Error the error record's msg is the
\* original message alone and the stack is carried in the record's stack
\* member, with no additionalDetails; the response message is "Unexpected
\* Command Error: " followed by the original message.
C10_GenericErrorMessage ==
    (ProcessEnded /\ outcome = "returned" /\ caught.type = "Error") =>
        /\ ~result.success
        /\ result.error.set
        /\ result.error.msg = caught.message
        /\ result.error.stack = caught.stack
        /\ result.error.additionalDetails = Undefined
        /\ result.message = UnexpectedCommandError \o ": " \o caught.message

\* C10 witness: a handler threw Error("boom") with a stack and invoke returned.
C10_Witness ==
    ProcessEnded /\ outcome = "returned" /\ caught = PlainErr("boom", "at x")

\* C11: when a handler throws an ImperativeError the snapshot is failed, its
\* error record is the thrown error's details (message, additionalDetails and
\* causeErrors of the value) and its message is the thrown message.
C11_ImperativeErrorDetails ==
    (ProcessEnded /\ outcome = "returned" /\ caught.type = "ImperativeError") =>
        /\ ~result.success
        /\ result.exitCode = ERROR_EXIT_CODE
        /\ result.error.set
        /\ result.error.msg = caught.message
        /\ result.error.additionalDetails = caught.additionalDetails
        /\ result.error.causeErrors = caught.causeErrors
        /\ result.message = caught.message

\* C11 witness: a handler threw an ImperativeError that carries details and
\* causeErrors, and invoke returned.
C11_Witness ==
    /\ ProcessEnded /\ outcome = "returned"
    /\ caught = ImperativeErrCaused("E1", "D1", "C1")
    /\ result.error.causeErrors = "C1"

\* C12: when a handler rejects with a plain string the snapshot is failed and
\* both the error record's message and the response message are that string,
\* with no additionalDetails.
C12_StringReject ==
    (ProcessEnded /\ outcome = "returned" /\ caught.type = "string") =>
        /\ ~result.success
        /\ result.exitCode = ERROR_EXIT_CODE
        /\ result.error.set
        /\ result.error.msg = caught.json
        /\ result.message = caught.json
        /\ result.error.additionalDetails = Undefined

\* C12 witness: a handler rejected with the string "oops" and invoke returned.
C12_Witness ==
    ProcessEnded /\ outcome = "returned" /\ caught = StringVal("oops")

\* What the handler last called wrote to stderr with its own calls.
OwnStderr(b) == IF b.warn # "" THEN b.warn \o "\n" ELSE ""

\* C13: when a handler rejects with null or undefined the snapshot is failed,
\* the error record's message and the snapshot's message are both the text
\* "Command Failed", and the processor writes nothing to stderr.
C13_SilentReject ==
    (ProcessEnded /\ outcome = "returned" /\ IsNullish(caught)) =>
        /\ ~result.success
        /\ result.error.set
        /\ result.error.msg = "Command Failed"
        /\ result.message = "Command Failed"
        /\ EndsWith(result.stderr, OwnStderr(behaviour))
        /\ ~Contains(result.stderr, ":\n")

\* C14: when the handler module of a single-handler command cannot be loaded
\* or instantiated, or the loaded value exposes no process, invoke returns a
\* failed snapshot headed "Handler Instantiation Failed" whose error
\* additionalDetails include the handler path, and no process was called.
C14_HandlerInstantiationFailed ==
    (pc = "done" /\ Occurred("load") /\ mDefinition.handler # Undefined
        /\ (RequireFails(mDefinition.handler) \/ ~HasProcess(mDefinition.handler))) =>
        /\ outcome = "returned"
        /\ ~result.success
        /\ Contains(result.stderr, "Handler Instantiation Failed:\n")
        /\ result.error.set
        /\ Contains(result.error.additionalDetails, mDefinition.handler)
        /\ ~Occurred("process")

\* The chained branch was taken: the definition has no handler of its own.
ChainTaken == mDefinition.handler = Undefined /\ mDefinition.hasChain

\* The number of times an event is in the trace.
Count(event) == Cardinality({ i \in 1..Len(trace) : trace[i] = event })

\* C15: chained handlers run in declaration order, one at a time, and the
\* chain stops at the first failure: the iterations begun are steps 0, 1, ...
\* in order, every iteration before the latest one was loaded and its process
\* returned normally, and a step is in progress only as the latest iteration.
C15_ChainInOrderStopsAtFailure ==
    ChainTaken =>
        /\ Len(steps) <= Len(mDefinition.chainedHandlers)
        /\ Count("load") = Len(steps)
        /\ \A i \in 1..Len(steps) :
            /\ steps[i].index = i - 1
            /\ steps[i].settled => steps[i].loaded
            /\ i < Len(steps) =>
                /\ steps[i].loaded
                /\ steps[i].settled
                /\ steps[i].behaviour.thrown = NothingThrown
        /\ pc = "chainProcess" =>
            /\ Len(steps) = chainedHandlerIndex + 1
            /\ steps[Len(steps)].loaded /\ ~steps[Len(steps)].settled
        /\ (pc = "execute" /\ Len(steps) > 0) =>
            /\ steps[Len(steps)].settled
            /\ steps[Len(steps)].behaviour.thrown = NothingThrown
            /\ chainedHandlerIndex = Len(steps)

\* C15 witness: a chain of three steps stopped at its second step, which threw.
C15_Witness ==
    /\ pc = "done" /\ ChainTaken /\ Len(mDefinition.chainedHandlers) = 3
    /\ Len(steps) = 2 /\ steps[2].settled /\ steps[2].behaviour.thrown # NothingThrown

\* C16: when step N is called, the prior data handed to the linker is the
\* data of steps 0..N-1 in step order (length N), with the top-level arguments
\* as the caller passed them and the chain of the definition.
C16_PriorDataInStepOrder ==
    \A i \in 1..Len(steps) :
        steps[i].loaded =>
            /\ Len(steps[i].priorData) = steps[i].index
            /\ \A j \in 1..(i - 1) : steps[i].priorData[j] = steps[j].data
            /\ steps[i].arguments = invoked.arguments
            /\ steps[i].chainedHandlers = mDefinition.chainedHandlers

\* C16 witness: the third step of a chain was handed the data of the first two
\* steps, which differ.
C16_Witness ==
    /\ Len(steps) = 3 /\ steps[3].loaded
    /\ steps[3].priorData = <<"{\"said\":\"hello\"}", "{\"said\":\"world\"}">>

\* What a handler wrote to stdout with its own calls.
OwnStdout(b) == IF b.log # "" THEN b.log \o "\n" ELSE ""

\* The stdout, and the stderr, the first n steps wrote, in step order.
RECURSIVE CumulativeOut(_)
CumulativeOut(n) ==
    IF n = 0 THEN "" ELSE CumulativeOut(n - 1) \o OwnStdout(steps[n].behaviour)
RECURSIVE CumulativeErr(_)
CumulativeErr(n) ==
    IF n = 0 THEN "" ELSE CumulativeErr(n - 1) \o OwnStderr(steps[n].behaviour)

\* Every step of a chain with at least one step returned normally.
ChainCompleted ==
    /\ pc = "done" /\ ChainTaken
    /\ Len(steps) > 0 /\ Len(steps) = Len(mDefinition.chainedHandlers)
    /\ steps[Len(steps)].settled
    /\ steps[Len(steps)].behaviour.thrown = NothingThrown

\* C17: for a chain in which every step succeeds the snapshot's stdout and
\* stderr are the steps' outputs concatenated in step order, each step's
\* response having been seeded with the output of all earlier steps.
C17_ChainOutputConcatenated ==
    /\ \A i \in 1..Len(steps) :
        steps[i].loaded =>
            /\ steps[i].seededOut = CumulativeOut(i - 1)
            /\ steps[i].seededErr = CumulativeErr(i - 1)
    /\ ChainCompleted =>
        /\ outcome = "returned"
        /\ result.stdout = CumulativeOut(Len(steps))
        /\ result.stderr = CumulativeErr(Len(steps))

\* C17 witness: a chain of three steps completed whose steps wrote "hello",
\* nothing and "world" (with a warning on stderr).
C17_Witness ==
    /\ ChainCompleted /\ Len(steps) = 3 /\ outcome = "returned"
    /\ result.stdout = "hello\nworld\n" /\ result.stderr = "careful\n"
    /\ steps[2].behaviour.log = ""

\* The chain stopped at its latest step: the step threw or was not loaded.
ChainFailed ==
    /\ pc = "done" /\ ChainTaken /\ Len(steps) > 0
    /\ \/ ~steps[Len(steps)].loaded
       \/ steps[Len(steps)].behaviour.thrown # NothingThrown

\* C18: when a chain stops at a failed step k the snapshot's stdout and stderr
\* hold the output of steps 0..k-1 followed by the failed step's own output.
C18_FailedChainKeepsOutput ==
    (ChainFailed /\ outcome = "returned") =>
        /\ StartsWith(result.stdout, CumulativeOut(Len(steps)))
        /\ StartsWith(result.stderr, CumulativeErr(Len(steps)))

\* C19: when every step of a chain returns normally the snapshot is built from
\* the last step's response and reports success = true and exitCode 0.
C19_ChainSuccessIsLastStep ==
    ChainCompleted =>
        /\ outcome = "returned"
        /\ result = BuildJsonResponse(chainedResponse)
        /\ result.success
        /\ result.exitCode = 0

\* The JSON documents this invocation wrote to the process's stdout.
JsonDocsWritten == response.jsonDocs + chainedResponse.jsonDocs

\* C20: an invocation with format json and not silent writes exactly one JSON
\* document, and one with format default writes none, for single-handler and
\* chained commands alike, the format being that of the invoke parameters.
C20_OneJsonDocument ==
    outcome = "returned" =>
        /\ (invoked.responseFormat = "json" /\ invoked.silent = Undefined) =>
               JsonDocsWritten = 1
        /\ EffectiveFormat(invoked) = "default" => JsonDocsWritten = 0

\* C21: an invocation with silent = true writes nothing to the process's
\* stdout or stderr (no live output, no error rendering, no JSON document),
\* for a single handler and for every step of a chain, and the snapshot still
\* holds the buffered output.
C21_SilentWritesNothing ==
    (invoked.silent = "true" /\ pc # "idle") =>
        /\ response.liveOut = "" /\ response.liveErr = ""
        /\ chainedResponse.liveOut = "" /\ chainedResponse.liveErr = ""
        /\ JsonDocsWritten = 0
        /\ ChainCompleted => result.stdout = CumulativeOut(Len(steps))

(***************************************************************************)
(* Cancellation, the credential manager, the definition tree, direct help  *)
(* and validate, the host's exit code and API object, profiles.            *)
(***************************************************************************)
StageStarts == {"validate", "prepare", "load", "process"}

\* C22: once the caller's cancellation signal is raised, no later stage or
\* chain step is started, and the invocation ends with a failed snapshot whose
\* exit code is 1.
C22_CancelStopsPipeline ==
    cancelSignal.raised =>
        /\ \A i \in (cancelSignal.at + 1)..Len(trace) : trace[i] \notin StageStarts
        /\ pc = "done" => /\ outcome = "returned"
                          /\ ~result.success
                          /\ result.exitCode = ERROR_EXIT_CODE

\* A step in which save throws, and one in which it calls saveCredentials.
SaveRejected == credOp' # credOp /\ credOp'.op = "save" /\ credOp'.thrown # NothingThrown
SaveCalled == ~credSaving.pending /\ credSaving'.pending

\* C23: save with a null, undefined or empty secret throws the ImperativeError
\* "Missing Secure Field", makes no saveCredentials call and leaves the stored
\* credentials as they were; with any other secret it calls saveCredentials
\* exactly once, for the same account, and resolves without a further call.
C23_SaveRejectsEmptySecret ==
    [][ /\ SaveRejected =>
            /\ credOp'.secureValue.isNull \/ credOp'.secureValue.text = <<>>
            /\ credOp'.thrown.type = "ImperativeError"
            /\ credOp'.thrown.message = "Missing Secure Field"
            /\ credOp'.calls = <<>>
            /\ credStore' = credStore
            /\ credSaving' = credSaving
        /\ SaveCalled =>
            /\ ~credSaving'.secureValue.isNull
            /\ credSaving'.secureValue.text # <<>>
            /\ Len(credSaving'.calls) = 1
            /\ credSaving'.calls[1].account = credSaving'.account
            /\ credStore'[credSaving'.account] = credSaving'.calls[1].credentials
            /\ OtherAccounts(credStore', credSaving'.account)
                   = OtherAccounts(credStore, credSaving'.account)
            /\ ~(credOp' # credOp /\ credOp'.op = "save")
        /\ (credSaving.pending /\ ~credSaving'.pending) =>
            /\ credOp'.op = "save"
            /\ credOp'.thrown = NothingThrown
            /\ credOp'.account = credSaving.account
            /\ credOp'.calls = credSaving.calls
            /\ credStore' = credStore
      ]_vars

C23_Witness ==
    /\ credOp.op = "save"
    /\ ~credOp.secureValue.isNull
    /\ credOp.secureValue.text = <<>>
    /\ credOp.thrown # NothingThrown
    /\ credStore[credOp.account] # Undefined
    /\ credDeleting.pending
    /\ credLoad.pending

\* C24 as stated: load(a) returns the secret last saved for a (the one the
\* backend held when loadCredentials read it), for every non-empty secret.
C24_RoundTripEverySecret ==
    (credOp.op = "load" /\ ~credOp.answered.isNull) =>
        /\ credOp.thrown = NothingThrown
        /\ credOp.value = credOp.answered.text

\* C24: load(a) returns the secret last given to save for a when
\* loadCredentials read the backend, whatever was saved to other accounts and
\* whichever calls were suspended or settled in between, when the secret is
\* well-formed text (it has no unpaired surrogate): decoding undoes the
\* encoding of save.  A load called after the save of s, with no later save or
\* delete for a before it reads the backend, is such a load.  At every moment
\* the backend holds, for each account, the encoding of the secret last given
\* to save for it, or nothing after a delete.
C24_CredentialRoundTrip ==
    /\ (credOp.op = "load" /\ ~credOp.answered.isNull /\ WellFormed(credOp.answered.text)) =>
           /\ credOp.thrown = NothingThrown
           /\ credOp.value = credOp.answered.text
    /\ credLoad.pending =>
           /\ credLoad.answered.isNull <=> credLoad.encodedString = Undefined
           /\ ~credLoad.answered.isNull =>
                  credLoad.encodedString = Base64Encode(Utf8Bytes(credLoad.answered.text))
    /\ \A a \in Accounts :
           credStore[a] = IF credSaved[a].isNull THEN Undefined
                          ELSE Base64Encode(Utf8Bytes(credSaved[a].text))

\* A load that resolved with a secret of two code points while a save for
\* another account and a delete for the load's own account, both called after
\* the load read the backend, were still suspended.
C24_Witness ==
    /\ credOp.op = "load"
    /\ credOp.value = <<HIGH_SURROGATE, LOW_SURROGATE>>
    /\ credOp.answered.text = <<HIGH_SURROGATE, LOW_SURROGATE>>
    /\ credSaving.pending
    /\ credSaving.account # credOp.account
    /\ credSaving.secureValue.text = <<112, 233>>
    /\ credDeleting.pending
    /\ credDeleting.account = credOp.account
    /\ credSaved[credOp.account].isNull

\* C25: the processor's definition and full definition stay what the
\* constructor was given through every help, validate and invoke call, also
\* when a handler changes the definitions it was handed; and the definitions
\* handed to a handler are equal to the constructor's, whatever an earlier
\* handler did to its own.
C25_DefinitionTreeUnchanged ==
    /\ mDefinition = constructed.definition
    /\ mFullDefinition = constructed.fullDefinition
    /\ (handed.given /\ ~handed.mutated) =>
           /\ handed.definition.value = constructed.definition
           /\ handed.fullDefinition.value = constructed.fullDefinition

C25_Witness ==
    /\ handed.mutated
    /\ handed.definition.value.name = "renamed"
    /\ pc = "execute"
    /\ chainedHandlerIndex = 1
    /\ chainedHandlerIndex < Len(mDefinition.chainedHandlers)

\* C26: validate called directly resolves with the validator's answer as it
\* is, and leaves the response object as it was, also when the answer is
\* "invalid".
C26_ValidateLeavesResponse ==
    direct.op = "validate" =>
        /\ response = direct.before
        /\ outcome = "returned" => direct.returned = direct.answer

C26_Witness ==
    /\ direct.op = "validate"
    /\ outcome = "returned"
    /\ ~direct.returned.valid
    /\ response.succeeded
    /\ response.defined

\* C27: help with a response builds the help text once, stores it as the
\* response data, writes it once to the response's stdout, sets the message
\* and resolves with the finished snapshot, the JSON document being written
\* only for a json response that is not silent; help without a response throws
\* and builds no help text.
C27_HelpEmitsOnce ==
    direct.op = "help" =>
        IF direct.before.defined
        THEN /\ outcome = "returned"
             /\ direct.buildHelpCalls = 1
             /\ response.data = direct.helpText
             /\ response.stdout = direct.before.stdout \o direct.helpText
             /\ response.liveOut = direct.before.liveOut
                                       \o (IF response.silent THEN "" ELSE direct.helpText)
             /\ response.stderr = direct.before.stderr
             /\ response.message = "The help was constructed for command: "
                                       \o mDefinition.name \o "."
             /\ response.succeeded = direct.before.succeeded
             /\ result = BuildJsonResponse(response)
             /\ response.jsonDocs =
                    IF response.responseFormat = "json" /\ ~response.silent THEN 1 ELSE 0
        ELSE /\ outcome = "rejected"
             /\ rejection.type = "ImperativeError"
             /\ direct.buildHelpCalls = 0

C27_Witness ==
    /\ direct.op = "help"
    /\ outcome = "returned"
    /\ direct.helpText # ""
    /\ response.jsonDocs = 1
    /\ result.data = direct.helpText

\* C28: process.exitCode is the error constant exactly when some defined
\* command completed with an unsuccessful response, and is left as it was
\* while every completion was successful.
C28_ExitCodeOnFailure ==
    /\ processExitCode.set <=> \E i \in 1..Len(completions) : ~completions[i]
    /\ processExitCode.set => processExitCode.code = ERROR_EXIT_CODE
    /\ ~processExitCode.set => processExitCode = NoExitCode

C28_Witness ==
    /\ completions = <<TRUE, FALSE, TRUE>>
    /\ processExitCode = [set |-> TRUE, code |-> ERROR_EXIT_CODE]

\* C29: reading Imperative.api throws an ImperativeError unless init has
\* resolved, and returns the API object once it has (stated for the first
\* init call of the process).
C29_ApiOnlyAfterInitResolved ==
    (apiAccess.read /\ apiAccess.inits <= 1) =>
        IF apiAccess.phase = "resolved"
        THEN apiAccess.thrown = NothingThrown /\ apiAccess.value.set
        ELSE apiAccess.thrown.type = "ImperativeError"

\* C30: a handler of a command that requires a profile whose type has a
\* dependency is given a profile map from which it gets both the dependency
\* and the main profile, each with a name and the type asked for; the
\* handler UseDependentProfile, once called, has logged both on the response
\* and throws nothing.
C30_HandlerGetsDependentProfiles ==
    (handed.given /\ pc \in {"process", "chainProcess"}) =>
        LET dependencyProfile == ProfileMapGet(handed.profiles, "profile-a")
            mainProfile == ProfileMapGet(handed.profiles, "profile-with-dependency")
            ran == UseDependentProfile(handed.profiles)
        IN  /\ dependencyProfile.type = "profile-a"
            /\ dependencyProfile.name # Undefined
            /\ mainProfile.type = "profile-with-dependency"
            /\ mainProfile.name # Undefined
            /\ ran.thrown = NothingThrown
            /\ ran.lines = <<"Loaded profile dependency dep1 of type profile-a",
                              "Loaded main profile main1 of type profile-with-dependency">>
            /\ (pc = "process" /\ mDefinition.handler = UseDependentProfilePath) =>
                   /\ response.stdout
                          = "Loaded profile dependency dep1 of type profile-a\n"
                                \o "Loaded main profile main1 of type profile-with-dependency\n"
                   /\ response.calls = <<"succeeded", "console.log", "console.log">>
                   /\ BehavioursOf(mDefinition.handler, handed.profiles)
                          = {[log |-> response.stdout, warn |-> "", callsFailed |-> FALSE,
                              thrown |-> NothingThrown, atCall |-> TRUE]}

C30_Witness ==
    /\ pc = "process"
    /\ mDefinition.handler = UseDependentProfilePath
    /\ response.stdout # ""
    /\ handed.given
    /\ Len(handed.profiles) = 2
    /\ mDefinition.profile.required = <<"profile-with-dependency">>

(***************************************************************************)
(* Logging configuration, init, the constructor and the remaining          *)
(* properties of invoke.                                                   *)
(***************************************************************************)
Keys(f) == DOMAIN f

\* C31: in every logging configuration produced, the category names are the
\* appender names, they are default, imperative, app and the api names of the
\* additional loggers, each category's appender list is its own name, and
\* asking for another api name for imperative or app changes none of the keys;
\* the two recorded configurations are reproduced.  A configuration is
\* produced for every input that has a name and for no other: the input
\* without a name is rejected with the recorded message and enters no logger.
C31_LoggingKeysAgree ==
    LET config == logging.log4jsConfig IN
    /\ Keys(config.categories) = Keys(config.appenders)
    /\ \A k \in Keys(config.categories) : config.categories[k].appenders = <<k>>
    /\ logging.stage \in {"building", "produced"} =>
           logging.input.name # Undefined /\ logging.thrownMessage = Undefined
    /\ logging.stage = "rejected" =>
        /\ logging.input.name = Undefined
        /\ logging.thrownMessage = "Expect Error: Required parameter 'name' must be defined"
        /\ config = EmptyLog4js
    /\ logging.stage = "produced" =>
        /\ Keys(config.categories) =
               {"default", "imperative", "app"}
                   \cup { logging.input.additionalLogging[i].apiName :
                            i \in 1..Len(logging.input.additionalLogging) }
        /\ (/\ logging.input.name = "sample"
            /\ logging.input.additionalLogging = <<>>
            /\ logging.input.appLogging.level = Undefined
            /\ logging.input.appLogging.logFile = Undefined
            /\ logging.input.imperativeLogging.level = Undefined) =>
               config = SnapshotApiNameKept
        /\ (/\ logging.input.additionalLogging
                   = <<[apiName |-> "extraOne", level |-> Undefined, logFile |-> Undefined],
                       [apiName |-> "extraTwo", level |-> "info",
                        logFile |-> "to/the/moon.log"]>>
            /\ logging.input.appLogging.level = "fatal"
            /\ logging.input.appLogging.logFile = "different/location/log.txt"
            /\ logging.input.imperativeLogging.level = "trace") =>
               config = SnapshotAdditional

C31_Witness ==
    /\ logging.stage = "produced"
    /\ logging.input.appLogging.apiName = "notApp"
    /\ logging.input.imperativeLogging.apiName = "notImperative"
    /\ logging.log4jsConfig = SnapshotApiNameKept

InitOccurred(step) == \E i \in 1..Len(initRun.trace) : initRun.trace[i] = step

\* C32: init never throws to its caller and settles its promise once: it
\* resolves only after every step has completed, and when a step throws it
\* rejects with the ImperativeError thrown, or with a new ImperativeError
\* "UNEXPECTED ERROR ENCOUNTERED" whose causeErrors is the value thrown.
C32_InitSettlesOnce ==
    /\ initPhase \in {"none", "awaiting", "resolved", "rejected"}
    /\ initRun.settles = (IF initRun.outcome \in {"resolved", "rejected"} THEN 1 ELSE 0)
    /\ initPhase \in {"resolved", "rejected"} => initRun.outcome = initPhase
    /\ initPhase = "awaiting" => initRun.outcome = "pending"
    /\ initRun.outcome = "resolved" =>
        /\ \A step \in {"loadConfig", "validateConfig", "logging", "overrides", "api",
                        "profiles", "defineCommands", "fullCommandTree"} :
               InitOccurred(step)
        /\ initRun.thrown = NothingThrown
        /\ initRun.rejection = NoRejection
    /\ initRun.outcome = "rejected" =>
        /\ initRun.thrown # NothingThrown
        /\ initRun.rejection.error.type = "ImperativeError"
        /\ IF initRun.thrown.type = "ImperativeError"
           THEN initRun.rejection.error = initRun.thrown /\ ~initRun.rejection.created
           ELSE /\ initRun.rejection.created
                /\ initRun.rejection.error.message = "UNEXPECTED ERROR ENCOUNTERED"
                /\ initRun.rejection.cause = initRun.thrown

C32_Witness ==
    /\ initRun.outcome = "rejected"
    /\ initRun.rejection.created
    /\ initRun.rejection.cause = PlainErr("boom", "at x")
    /\ InitOccurred("profiles")
    /\ ~InitOccurred("defineCommands")

InitPrecedes(first, second) ==
    \A j \in 1..Len(initRun.trace) :
        initRun.trace[j] = second => \E i \in 1..(j - 1) : initRun.trace[i] = first

\* C39: the steps of init occur in the order of its body: configuration load,
\* validation, logging, overrides, API object; plugin commands before the
\* tree is prepared; profiles before the commands are defined; the full
\* command tree only after every child is defined; plugin steps only when
\* allowPlugins is set.
C39_InitStepOrder ==
    /\ InitPrecedes("loadConfig", "validateConfig")
    /\ InitPrecedes("validateConfig", "logging")
    /\ InitPrecedes("logging", "overrides")
    /\ InitPrecedes("overrides", "api")
    /\ initRun.allowPlugins => InitPrecedes("pluginCommands", "preparedTree")
    /\ InitPrecedes("profiles", "defineCommands")
    /\ InitPrecedes("defineCommands", "fullCommandTree")
    /\ \A j \in 1..Len(initRun.trace) :
           initRun.trace[j] = "fullCommandTree" =>
               Cardinality({ i \in 1..(j - 1) : initRun.trace[i] = "defineChild" })
                   = initRun.children
    /\ ~initRun.allowPlugins => \A step \in PluginSteps : ~InitOccurred(step)

C39_Witness ==
    /\ initRun.outcome = "resolved"
    /\ initRun.allowPlugins
    /\ initRun.children = 2
    /\ InitOccurred("pluginCommands")
    /\ InitOccurred("fullCommandTree")

Blank(x) ==
    \/ x = Undefined
    \/ \A i \in 1..Len(x) : SubSeq(x, i, i) \in WhiteSpace

\* C33: the constructor throws, and produces no processor, exactly when the
\* parameters, the definition, the help generator or the profile manager
\* factory is null, the root command name is missing or blank, or a "command"
\* definition without chainedHandlers has a missing or blank handler; a
\* processor built without a full definition has the definition as its full
\* definition.
C33_ConstructorChecks ==
    ctor.called =>
        LET p == ctor.params
            refused ==
                \/ p.isNull
                \/ p.definition.isNull
                \/ ~p.helpGenerator.present
                \/ ~p.profileManagerFactory.present
                \/ Blank(p.rootCommandName)
                \/ /\ p.definition.value.type = "command"
                   /\ ~p.definition.value.hasChain
                   /\ Blank(p.definition.value.handler)
        IN  /\ refused <=> (ctor.thrown # NothingThrown)
            /\ refused <=> ~ctor.processor.produced
            /\ refused => ctor.thrown.type = "ImperativeError"
            /\ ~refused =>
                /\ ctor.processor.mDefinition = p.definition.value
                /\ ctor.processor.mCommandRootName = p.rootCommandName
                /\ ctor.processor.mFullDefinition =
                       (IF p.fullDefinition.isNull THEN p.definition.value
                        ELSE p.fullDefinition.tree)

C33_Witness ==
    /\ ctor.called
    /\ ctor.processor.produced
    /\ ctor.params.fullDefinition.isNull
    /\ ctor.processor.mFullDefinition = ctor.params.definition.value
    /\ ctor.params.definition.value.hasChain

\* C40: getProfileConfiguration(type) returns undefined when the configuration
\* has no profile list, an empty one, or none of that type; otherwise the last
\* entry of the list whose type is the one asked for; it leaves the list as
\* it was.
C40_LastProfileConfiguration ==
    profileQuery.asked =>
        LET list == profileQuery.profiles.list
            matching == { i \in 1..Len(list) : list[i].type = profileQuery.type }
        IN  /\ profileQuery.after = profileQuery.profiles
            /\ IF profileQuery.profiles.isNull \/ matching = {}
               THEN profileQuery.returned = NoProfileConfig
               ELSE /\ profileQuery.returned.found
                    /\ profileQuery.returned.config.type = profileQuery.type
                    /\ profileQuery.returned.config
                           = list[CHOOSE i \in matching : \A j \in matching : j <= i]

C40_Witness ==
    /\ profileQuery.asked
    /\ profileQuery.type = "apple"
    /\ profileQuery.profiles.list
           = <<[type |-> "apple", schema |-> "s1"], [type |-> "apple", schema |-> "s2"],
               [type |-> "banana", schema |-> "s1"]>>
    /\ profileQuery.returned.config.schema = "s2"

\* The response a handler's throw was recorded on: the command's for a single
\* handler, the step's for a chain.
HandlerResponse == IF mDefinition.handler # Undefined THEN response ELSE chainedResponse

HandlerThrew == Occurred("process:threw")

\* The calls of handleHandlerError on the response for a thrown value, in the
\* order of the calls, told from the value alone: failed, endProgressBar, and
\* the calls of the one branch for the value's shape.
CallsOfBranch(e) ==
    <<"failed", "endProgressBar">> \o
    CASE e.type = "ImperativeError" ->
            <<"setError", "console.errorHeader", "console.error">>
            \o (IF e.additionalDetails # Undefined
                THEN <<"console.errorHeader", "console.error">> ELSE <<>>)
            \o <<"data.setMessage">>
      [] e.type = "Error" ->
            <<"setError", "data.setMessage", "console.errorHeader", "console.error",
              "console.errorHeader", "console.error", "console.errorHeader", "console.error">>
      [] e.type = "string" ->
            <<"console.errorHeader", "console.error", "data.setMessage", "setError">>
      [] e.type \in {"null", "undefined"} -> <<"data.setMessage", "setError">>
      [] OTHER ->
            <<"console.errorHeader", "console.error", "console.error", "console.error",
              "data.setObj">>

\* The error record handleHandlerError leaves for a thrown value, told from
\* the value alone.
ErrorRecordOf(e) ==
    CASE e.type = "ImperativeError" ->
            ErrRec(e.message, e.additionalDetails, e.causeErrors, Undefined)
      [] e.type = "Error" -> ErrRec(e.message, Undefined, Undefined, e.stack)
      [] e.type = "string" -> ErrRec(e.json, Undefined, Undefined, Undefined)
      [] e.type \in {"null", "undefined"} ->
            ErrRec("Command Failed", Undefined, Undefined, Undefined)
      [] OTHER -> NoError

\* The calls that write error text or record the error.
ErrorTextCalls == {"console.errorHeader", "console.error", "setError", "data.setMessage"}

\* C34: whatever a handler throws, handleHandlerError takes exactly one of its
\* five branches, chosen by the shape of the value alone: the calls made on the
\* response from response.failed() on are those of that one branch; the
\* response is marked failed and its progress bar ended before any error text
\* is written; and the error record depends on the thrown value only, so equal
\* thrown values give equal error records.
C34_HandlerErrorByShape ==
    (pc = "done" /\ HandlerThrew) =>
        LET e == caught
            calls == HandlerResponse.calls
            failedAt == { i \in 1..Len(calls) : calls[i] = "failed" }
            texts == { i \in 1..Len(calls) : calls[i] \in ErrorTextCalls }
            branch == CallsOfBranch(e)
        IN  /\ ~HandlerResponse.succeeded
            /\ ~HandlerResponse.progress
            /\ Cardinality(failedAt) = 1
            /\ \A f \in failedAt :
                   /\ f + 1 <= Len(calls)
                   /\ calls[f + 1] = "endProgressBar"
                   /\ \A i \in texts : i > f + 1
                   /\ f + Len(branch) - 1 <= Len(calls)
                   /\ SubSeq(calls, f, f + Len(branch) - 1) = branch
                   /\ \A i \in (f + Len(branch))..Len(calls) : calls[i] = "writeJsonResponse"
            /\ HandlerResponse.error = ErrorRecordOf(e)

C34_Witness ==
    /\ pc = "done"
    /\ HandlerThrew
    /\ caught = NumberVal("42")
    /\ behaviour.log = "hello"
    /\ ~HandlerResponse.succeeded
    /\ ~HandlerResponse.error.set

\* C35: prepare runs once per invoke, before any handler is loaded, reading
\* stdin and then loading the profiles; a single handler and every step of a
\* chain are handed the profile map which that one prepare produced, and no
\* profile is loaded again between the steps.
C35_PrepareOnce ==
    /\ Count("prepare") <= 1
    /\ \A i \in 1..Len(trace) :
           trace[i] = "load" => \E j \in 1..(i - 1) : trace[j] = "prepare"
    /\ pc \in {"execute", "process", "chainProcess"} =>
           /\ Count("prepare") = 1
           /\ prepared = PrepareProfiles(mDefinition)
           /\ prepared.calls = <<"readStdinIfRequested", "loadProfiles">>
    /\ pc \in {"process", "chainProcess"} =>
           /\ handed.given
           /\ handed.profiles = prepared.profiles
    /\ pc \in {"idle", "validate"} => prepared.calls = <<>>
    /\ pc = "prepare" => prepared.calls = <<"readStdinIfRequested">>
    /\ pc = "loadProfiles" => prepared.calls = <<"readStdinIfRequested", "loadProfiles">>
    /\ pc \in {"prepare", "loadProfiles"} => prepared.profiles = <<>> /\ ~Occurred("load")
    /\ Occurred("prepare") =>
           /\ Len(prepared.calls) \in {1, 2}
           /\ prepared.calls = SubSeq(<<"readStdinIfRequested", "loadProfiles">>, 1,
                                      Len(prepared.calls))

C35_Witness ==
    /\ pc = "chainProcess"
    /\ chainedHandlerIndex = 1
    /\ Count("load") = 2
    /\ Count("prepare") = 1
    /\ handed.profiles # <<>>
    /\ handed.profiles = prepared.profiles

\* invoke returned the snapshot of a response that was handed to a handler
\* whose process was called: the single handler's, or the latest chain step's.
FinishedHandlerResponse ==
    /\ pc = "done"
    /\ outcome = "returned"
    /\ IF mDefinition.handler # Undefined
       THEN Occurred("process")
       ELSE ChainTaken /\ Len(steps) > 0 /\ steps[Len(steps)].settled

\* C36: whenever invoke finalizes a response that was handed to a handler whose
\* process was called, that response's progress bar has been ended, after a
\* normal return as after a throw, for a single handler and for a chain step.
C36_ProgressBarEndedBeforeFinish ==
    FinishedHandlerResponse =>
        /\ result = BuildJsonResponse(HandlerResponse)
        /\ ~HandlerResponse.progress

\* C37: a definition with both a handler and chained handlers runs the single
\* handler only and never loads or calls a chained one; a definition with
\* chained handlers alone runs the chain only; no invocation runs both.
C37_OneBranchOnly ==
    /\ mDefinition.handler # Undefined =>
           /\ steps = <<>>
           /\ chainedResponse = NoResponse
           /\ chainedHandlerIndex = 0
           /\ pc # "chainProcess"
           /\ Count("load") <= 1 /\ Count("process") <= 1
    /\ (mDefinition.handler = Undefined /\ mDefinition.hasChain) =>
           /\ pc # "process"
           /\ Count("load") = Len(steps)
           /\ Count("process") = Cardinality({ i \in 1..Len(steps) : steps[i].loaded })
    /\ ~(pc = "process" /\ steps # <<>>)

C37_Witness ==
    /\ pc = "done"
    /\ mDefinition.handler = "h_ok"
    /\ mDefinition.hasChain
    /\ Len(mDefinition.chainedHandlers) = 1
    /\ Occurred("process")
    /\ behaviour.log = "hello"
    /\ steps = <<>>
    /\ result.stdout = "hello\n"

\* invoke took one of its failure paths: the validator threw, the syntax was
\* invalid, prepare threw, a handler could not be loaded, or a handler threw.
FailurePath ==
    \/ Occurred("validate:threw")
    \/ Occurred("validate:invalid")
    \/ Occurred("prepare:threw")
    \/ Occurred("load:failed")
    \/ Occurred("process:threw")

\* The response invoke finalized: a chain step's once a step's process has
\* settled and the chain ended there, the command's otherwise.
FinalizedResponse ==
    IF ChainTaken /\ Len(steps) > 0 /\ steps[Len(steps)].settled
    THEN chainedResponse ELSE response

\* C38 as stated: the response is marked succeeded right after it is built;
\* every failure path that returns has marked the finalized response failed;
\* and no returned response was marked failed and later re-marked succeeded.
C38_FailedStaysFailed ==
    /\ pc = "validate" => response.defined /\ response.succeeded
    /\ (pc = "done" /\ outcome = "returned" /\ FailurePath) =>
           /\ result = BuildJsonResponse(FinalizedResponse)
           /\ ~FinalizedResponse.succeeded
           /\ ~result.success
    /\ (FinishedHandlerResponse /\ behaviour.callsFailed) => ~result.success

\* C38 amended: the response is marked succeeded right after it is built; every
\* failure path that returns has marked the finalized response failed; a
\* returned response reports failure exactly when invoke took a failure path
\* or the last step of a chain marked its response failed, so that the
\* failed() of a single handler that returns normally is re-marked succeeded.
C38_FailurePathsMarkFailed ==
    /\ pc = "validate" => response.defined /\ response.succeeded
    /\ (pc = "done" /\ outcome = "returned" /\ FailurePath) =>
           /\ result = BuildJsonResponse(FinalizedResponse)
           /\ ~FinalizedResponse.succeeded
           /\ ~result.success
    /\ (pc = "done" /\ outcome = "returned") =>
           (~result.success <=>
                \/ FailurePath
                \/ ChainTaken /\ Len(steps) > 0 /\ steps[Len(steps)].settled
                   /\ steps[Len(steps)].behaviour.callsFailed)
    /\ (FinishedHandlerResponse /\ behaviour.callsFailed /\ mDefinition.handler # Undefined) =>
           result.success

C38_Witness ==
    /\ pc = "done"
    /\ outcome = "returned"
    /\ ChainTaken
    /\ Len(steps) = 2
    /\ Occurred("load:failed")
    /\ steps[1].behaviour.callsFailed
    /\ FinalizedResponse = response
    /\ ~result.success

====
